---- MODULE Spec2Model ----
(***************************************************************************)
(* Record/replay determinism engine of gecko-dev (toolkit/recordreplay).   *)
(*                                                                         *)
(* The module holds several specifications over disjoint groups of         *)
(* variables:                                                              *)
(*   SpecData   - a replaying process receiving RecordingData messages     *)
(*                (child IPC: OnNewRecordingData, EnsureRecordingLength,   *)
(*                AddPendingRecordingData).                                *)
(*   SpecStream - one thread recording RecordReplayValue/Bytes calls and   *)
(*                a later process replaying them against the stream.       *)
(*   SpecLock, SpecFork, SpecTimeout, SpecPing, SpecCkpt, SpecMode,        *)
(*   SpecBuf, SpecIdle - ordered locks, forked processes, the fork         *)
(*                timeout, hang detection, checkpoints, thread modes,      *)
(*                RecordReplayBytes on a buffer, idle threads.             *)
(*   SpecDiv, SpecAtom, SpecRole, SpecSum, SpecSm, SpecRoute - unhandled   *)
(*                divergences, OrderedAtomic, the role of the process,     *)
(*                the summary stream, StaticMutex, routing by fork id.     *)
(*   SpecMan, SpecExt, SpecFlush, SpecSk, SpecSetup, SpecEv, SpecAuth -    *)
(*                manifests, external call requests, FlushRecording,       *)
(*                shared keys, the set-up of the channel, mouse and        *)
(*                keyboard events, openSigninPage.                         *)
(* Each specification pins the variables of the other groups.              *)
(***************************************************************************)
EXTENDS Integers, Sequences, FiniteSets, TLC

(***************************************************************************)
(* Bounds of the model.                                                    *)
(***************************************************************************)
\* Length in bytes of the recording the middleman holds.
MaxLen == 3
\* Largest payload of one RecordingData message.
MaxChunk == 2
\* Number of RecordingData messages delivered to the process.
MaxMsgs == 4

\* Threads that call EnsureRecordingLength (the main thread is thread 1).
Threads == {1, 2}
MainThreadId == 1

VARIABLES
  \* ---- group: recording data received by a replaying process ----
  gRecordingContents,              \* part_005:89, all contents received
  gDeferredRecordingDataMessages,  \* part_005:93, non-contiguous messages
  gRecording,                      \* ProcessRecordReplay.cpp:46, incorporated bytes
  delivered,                       \* history: RecordingData messages handled so far
  pc,                              \* per thread: position in EnsureRecordingLength
  need,                            \* per thread: aLength of the current call
  notified,                        \* per thread: gMonitor->NotifyAll() reached its Wait()
  resumed,                         \* per thread: returned after having waited
  crashed                          \* MOZ_CRASH was hit

dataVars == <<gRecordingContents, gDeferredRecordingDataMessages, gRecording,
              delivered, pc, need, notified, resumed, crashed>>

VARIABLES
  \* ---- group: one thread's event stream, recorded and then replayed ----
  processKind,   \* "Recording" or "Replaying" (gIsRecording / gIsReplaying)
  events,        \* thread->Events(): the scalars and bytes of the stream
  streamPos,     \* replay cursor into events
  fatalError,    \* "none", or the fatal error the process died with
  recCalls,      \* history: calls made while recording, with their results
  repCalls       \* history: calls made while replaying, with their results

streamVars == <<processKind, events, streamPos, fatalError, recCalls, repCalls>>

VARIABLES
  \* ---- group: ordered locks, recorded and then replayed ----
  lockKind,        \* "Recording" or "Replaying"
  lockOwner,       \* per lock: the thread holding the underlying lock
  lockStream,      \* the "lock" stream: ordered acquires, in global order
  lockCursor,      \* replay: entries of the lock stream consumed so far
  lockCalls,       \* per thread: the OrderedLock calls it makes, in order
  lockCallPos,     \* per thread: calls made so far while replaying
  lockScope,       \* per thread: the lock between OrderedLock and OrderedUnlock
  replayAcquires   \* history: ordered acquires observed while replaying

lockVars == <<lockKind, lockOwner, lockStream, lockCursor, lockCalls,
              lockCallPos, lockScope, replayAcquires>>

VARIABLES
  \* ---- group: a replaying root process and the processes it forks ----
  rootContents,          \* gRecordingContents of the root process
  rootDeferred,          \* gDeferredRecordingDataMessages of the root process
  gForkLock,             \* part_005:112, mReaders of the root's fork lock
  mainPc,                \* root main thread: position in PerformFork
  mainForkId,            \* root main thread: aForkId of the running PerformFork
  chanPc,                \* root channel thread: position in ChannelMessageHandler
  forkPipe,              \* gForkWriteFd -> gForkReadFd: ForkedProcess records
  listenerPc,            \* fork listener thread: position in its loop
  listenerFork,          \* fork listener thread: mForkId of the record read
  gForkedProcesses,      \* part_005:411, fork ids with a registered channel
  gPendingForkMessages,  \* part_005:402, messages for forks not yet connected
  rootCrashed,           \* the root process died
  forkState,             \* per fork id: "none", "child" (just cloned), "running"
  forkLock,              \* per fork id: mReaders of the fork's copy of gForkLock
  forkContents,          \* per fork id: gRecordingContents of the fork
  forkDeferred,          \* per fork id: gDeferredRecordingDataMessages of the fork
  forkPc,                \* per fork id: position in EnsureRecordingLength
  forkNeed,              \* per fork id: aLength of its EnsureRecordingLength call
  toRoot,                \* per fork id: messages sent by the fork, not yet handled
  toFork,                \* per fork id: messages sent to the fork, not yet handled
  handlerPc,             \* per fork id: position in HandleMessageFromForkedProcess
  handlerMsg             \* per fork id: the message being handled there

forkVars == <<rootContents, rootDeferred, gForkLock, mainPc, mainForkId, chanPc,
              forkPipe, listenerPc, listenerFork, gForkedProcesses,
              gPendingForkMessages, rootCrashed, forkState, forkLock,
              forkContents, forkDeferred, forkPc, forkNeed, toRoot, toFork,
              handlerPc, handlerMsg>>

VARIABLES
  \* ---- group: a forked process waiting for its channel to the root ----
  now,            \* TimeStamp::Now(), in seconds
  forkedAt,       \* the time of the clone
  deadline,       \* part_005:593, the deadline handed to the channel
  mInitialized,   \* Channel.h:436, of the fork's gChannel
  childPc,        \* "unborn", "cloned", "waiting", "running" or "exited"
  exitedAt        \* the time at which the fork exited

timeoutVars == <<now, forkedAt, deadline, mInitialized, childPc, exitedAt>>

VARIABLES
  \* ---- group: the middleman probing a replaying process with pings ----
  pingInbox,        \* messages sent to the process, not yet taken by its channel thread
  pingInHand,       \* the Ping the channel thread holds while it waits for the fork lock
  pingForkLock,     \* gForkLock of the process
  pingMainPc,       \* main thread of the process: "running" or "forking"
  pingForks,        \* PerformFork calls the main thread has made
  pingOutbox,       \* PingResponse messages not yet received by the middleman
  childCrashed,     \* ReportFatalError("Hung replaying process") was reached
  nextPingId,       \* middleman: id of the next Ping
  answered,         \* middleman: ids of the pings that were answered
  missedIntervals,  \* middleman: intervals in a row without an answer
  classifiedHung,   \* middleman: the process was classified as hung
  crashSent         \* middleman: Middleman_CrashHangedChild was called

pingVars == <<pingInbox, pingInHand, pingForkLock, pingMainPc, pingForks,
              pingOutbox,
              childCrashed, nextPingId, answered, missedIntervals,
              classifiedHung, crashSent>>

VARIABLES
  \* ---- group: checkpoints of a recording process and of its replay ----
  ckptPhase,        \* "recording", then "replaying" the finished recording
  nextRequest,      \* middleman: number of the next CreateCheckpoint request
  ckptChannel,      \* CreateCheckpoint messages sent, not yet handled
  ckptReceived,     \* history: requests the channel thread has handled
  ckptPipe,         \* gCheckpointWriteFd -> gCheckpointReadFd
  ckptRunnables,    \* CreateCheckpoint runnables dispatched to the main thread
  gModule,          \* JSControl.cpp:91, non-null once the module is initialized
  gHasCheckpoint,   \* ProcessRecordReplay.cpp:1320
  gLastCheckpoint,  \* index of the last checkpoint of the running process
  mainStream,       \* recorded main thread stream: events and checkpoints
  mainEvents,       \* number of plain events the main thread has recorded
  ckptLog,          \* history: <<index, stream position>> while recording
  ckptCreatedFor,   \* history: requests whose runnable created a checkpoint
  ckptReplayPos,    \* replay: entries of mainStream consumed
  ckptReplayLog,    \* history: <<index, stream position>> while replaying
  ckptReplayFatal   \* replay: the recorded index differs from the issued one

ckptVars == <<ckptPhase, nextRequest, ckptChannel, ckptReceived, ckptPipe,
              ckptRunnables, gModule, gHasCheckpoint, gLastCheckpoint,
              mainStream, mainEvents, ckptLog, ckptCreatedFor, ckptReplayPos,
              ckptReplayLog, ckptReplayFatal>>

VARIABLES
  \* ---- group: per-thread modes of a recording or replaying process ----
  modeKind,                \* "Recording", then "Replaying"
  modeScopes,              \* per thread: the open begin/end scopes, innermost last
  mPassThroughEvents,      \* per thread: pass-through nesting counter
  mDisallowEvents,         \* per thread: disallow nesting counter
  mDivergedFromRecording,  \* per thread: the thread has diverged
  modeLockOwner,           \* thread holding the ordered static mutex
  modeLockStream,          \* the lock stream: ordered acquirers, in order
  modeLockCursor,          \* replay: entries of the lock stream consumed
  modeCalls,               \* events and lock calls attempted so far
  modeLast,                \* history: the last event or lock call attempted
  modeExit                 \* "none", "crash" or "divergence"

modeVars == <<modeKind, modeScopes, mPassThroughEvents, mDisallowEvents,
              mDivergedFromRecording, modeLockOwner, modeLockStream,
              modeLockCursor, modeCalls, modeLast, modeExit>>

VARIABLES
  \* ---- group: RecordReplayBytes on a part of the caller's buffer ----
  bufKind,     \* "Recording", then "Replaying" the recorded stream
  bufEvents,   \* contents of the thread's stream
  bufPos,      \* replay: read cursor in the stream
  bufFatal,    \* fatal error reported, "none" if none
  bufCalls,    \* calls made by the running process
  bufLast      \* history: the last call, with the stream as it was before

bufVars == <<bufKind, bufEvents, bufPos, bufFatal, bufCalls, bufLast>>

VARIABLES
  \* ---- group: the main thread adding recording data among other threads ----
  idlePc,               \* main thread: position in AddPendingRecordingData
  idleRequireMore,      \* main thread: aRequireMore of the running call
  idleThreads,          \* per recorded thread: "unspawned", "running",
                        \* "reading" (inside a read of its stream) or "idle"
  gThreadsShouldIdle,   \* WaitForIdleThreads asked the threads to go idle
  gNeedRespawnThreads,  \* the process is a fresh fork without its threads
  idleContents,         \* gRecordingContents.length()
  idleRecording,        \* gRecording->Size()
  idlePos,              \* per recorded thread: bytes of the recording read
  idleCrashed           \* MOZ_CRASH("AddPendingRecordingData")

idleVars == <<idlePc, idleRequireMore, idleThreads, gThreadsShouldIdle,
              gNeedRespawnThreads, idleContents, idleRecording, idlePos,
              idleCrashed>>

VARIABLES
  \* ---- group: a thread reporting an unhandled divergence ----
  gUnhandledDivergenceAllowed, \* part_005:699
  gExitCalled,      \* part_005:115
  divTerminate,     \* progress of the Terminate message: none, sent, flagged
  divPc,            \* per thread: position inside ReportUnhandledDivergence
  divNotAllowed,    \* per thread: the test of part_005:706 was true
  divSent,          \* messages this process has sent to the middleman
  divSets,          \* number of SetUnhandledDivergenceAllowed calls so far
  divExit           \* none, crashed or exited

divVars == <<gUnhandledDivergenceAllowed, gExitCalled, divTerminate, divPc,
             divNotAllowed, divSent, divSets, divExit>>

VARIABLES
  \* ---- group: one OrderedAtomic, recorded and then replayed ----
  atomKind,         \* "Recording" or "Replaying"
  mInner,           \* RecordReplay.h:201, the wrapped Atomic
  atomLockOwner,    \* the thread holding the lock mOrderedLockId
  atomLockStream,   \* acquirers of mOrderedLockId, in recorded order
  atomCursor,       \* replay: entries of atomLockStream consumed so far
  atomPc,           \* per thread: idle, locked or accessed
  atomOp,           \* per thread: the operation in progress
  atomCalls,        \* per thread: the operations it makes, in order
  atomCallPos,      \* per thread: operations started while replaying
  atomRecAccesses,  \* history: accesses to mInner while recording
  atomRepAccesses   \* history: accesses to mInner while replaying

atomVars == <<atomKind, mInner, atomLockOwner, atomLockStream, atomCursor,
              atomPc, atomOp, atomCalls, atomCallPos, atomRecAccesses,
              atomRepAccesses>>

VARIABLES
  \* ---- group: the role of the process, set at startup ----
  gInitialized,             \* mfbt/RecordReplay.cpp:130
  gIsRecordingOrReplaying,  \* mfbt/RecordReplay.cpp:188
  gIsRecording,             \* mfbt/RecordReplay.cpp:189
  gIsReplaying,             \* mfbt/RecordReplay.cpp:190
  gIsMiddleman,             \* ProcessRecordReplay.cpp:138
  rolePc,                   \* position inside RecordReplayInterface_Initialize
  roleArgs,                 \* the arguments of the call in progress
  roleLog,                  \* history: the calls of Initialize, in order
  roleFirst                 \* history: the flags when the first call returned

roleVars == <<gInitialized, gIsRecordingOrReplaying, gIsRecording,
              gIsReplaying, gIsMiddleman, rolePc, roleArgs, roleLog,
              roleFirst>>

VARIABLES
  \* ---- group: the summary stream, written and then read ----
  sumKind,              \* "Recording" or "Replaying"
  sumStream,            \* gRecording->OpenStream(StreamName::Summary, 0)
  sumWritten,           \* history: the arguments of AddCheckpointSummary
  sumProgressCounters,  \* the caller's aProgressCounters
  sumElapsed,           \* the caller's aElapsed
  sumTimes,             \* the caller's aTimes
  sumReads              \* calls of GetRecordingSummary so far

sumVars == <<sumKind, sumStream, sumWritten, sumProgressCounters, sumElapsed,
             sumTimes, sumReads>>

VARIABLES
  \* ---- group: one StaticMutex used by several threads ----
  mMutex,      \* StaticMutex.h:62, the mutex in use or NoMutex
  smPc,        \* per thread: position inside Lock(), Mutex() and Unlock()
  smLocal,     \* per thread: `mutex` of StaticMutex.h:55
  smReturned,  \* per thread: what its last Mutex() call returned
  smNew,       \* the mutexes allocated so far
  smDeleted,   \* the mutexes deleted so far
  smLocked,    \* the mutexes that have ever been locked
  smOwner,     \* per mutex: the thread holding it
  smCalls      \* per thread: Lock() calls that have returned

smVars == <<mMutex, smPc, smLocal, smReturned, smNew, smDeleted, smLocked,
            smOwner, smCalls>>

VARIABLES
  \* ---- group: the root routing the middleman's messages to its forks ----
  routeInbox,      \* messages sent to the root, not yet handled
  routeCount,      \* messages sent so far, to the root or astray
  routeForkState,  \* per fork id: "none", "forked", "connected" or "exited"
  routePipe,       \* gForkWriteFd -> gForkReadFd: ForkedProcess records
  routeForked,     \* gForkedProcesses: fork ids with a non-null entry
  routePending,    \* gPendingForkMessages
  routeChannel,    \* per fork id: messages on its channel, not yet handled
  routeReceived,   \* history: messages the root's handler was entered with
  routeForwarded,  \* history, per fork id: messages the root passed on
  routeSentTo,     \* history, per fork id: messages the root sent to it
  routeHandled,    \* history, per process: messages it handled itself
  routeDropped,    \* history, per fork id: messages it dropped
  routeFlushed     \* history, per fork id: pending messages sent on connect

routeVars == <<routeInbox, routeCount, routeForkState,
               routePipe, routeForked, routePending, routeChannel,
               routeReceived, routeForwarded, routeSentTo, routeHandled,
               routeDropped, routeFlushed>>

VARIABLES
  \* ---- group: manifests processed one at a time ----
  gPendingManifests,     \* part_005:81, manifests received and not started
  gProcessingManifest,   \* part_005:85
  gMainThreadCallbacks,  \* callbacks handed to the main thread, in order
  manReceived,           \* number of ManifestStart messages received
  manJs,                 \* manifests the script has started and not finished
  manStarted,            \* manifests passed to js::ManifestStart, in order
  manFinishedSent,       \* manifests whose ManifestFinished message was sent
  manCrashed             \* a release assertion of ManifestFinished failed

manVars == <<gPendingManifests, gProcessingManifest, gMainThreadCallbacks,
             manReceived, manJs, manStarted, manFinishedSent, manCrashed>>

VARIABLES
  \* ---- group: external call requests ----
  gWaitingForCallResponse,  \* part_005:101
  gCallResponseMessage,     \* part_005:96-97, NoResponse when null
  extPc,         \* per thread: position inside SendExternalCallRequest
  extRequest,    \* per thread: the request it has sent
  extSerial,     \* number of requests sent so far
  extToParent,   \* ExternalCallRequest messages on their way to the middleman
  extToChild,    \* ExternalCallResponse messages on their way to the process
  extOutput,     \* per thread: <<request, response>> pairs it has returned
  extCrashed     \* a release assertion of the channel thread failed

extVars == <<gWaitingForCallResponse, gCallResponseMessage, extPc,
             extRequest, extSerial, extToParent, extToChild, extOutput,
             extCrashed>>

VARIABLES
  \* ---- group: FlushRecording in a recording process ----
  flushRecording,   \* bytes of gRecording, what Data() and Size() give
  flushBuffered,    \* bytes written to the streams and not flushed yet
  gRecordingDataSentToMiddleman,  \* ProcessRecordReplay.cpp:290
  flushSent,        \* RecordingData messages sent to the middleman, in order
  flushCalls        \* FlushRecording calls made so far

flushVars == <<flushRecording, flushBuffered, gRecordingDataSentToMiddleman,
               flushSent, flushCalls>>

VARIABLES
  \* ---- group: shared keys kept by the root for its forks ----
  gSharedDatabase,     \* part_005:911, of the root: key -> value
  gSharedKeyResponse,  \* part_005:913, per fork: <<>> or <<value>>
  skPc,        \* per fork: main thread "idle" or "waiting" in GetSharedKey
  skToRoot,    \* per fork: messages sent to the root, not handled yet
  skToFork,    \* per fork: responses sent by the root, not handled yet
  skHandled,   \* the SetSharedKey calls the root has handled, in order
  skReturns,   \* per fork: what its GetSharedKey calls returned
  skOps,       \* per fork: calls made so far
  skCrashed    \* a release assertion of HandleSharedKeyResponse failed

skVars == <<gSharedDatabase, gSharedKeyResponse, skPc, skToRoot, skToFork,
            skHandled, skReturns, skOps, skCrashed>>

VARIABLES
  \* ---- group: the channel of a recording or replaying process is set up ----
  gIntroductionMessage,  \* part_005:77, whether the message is held
  setupKind,       \* "Recording" or "Replaying", "none" before the call
  setupPc,         \* main thread: "unstarted", "waiting" or "returned"
  setupInbox,      \* messages sent by the middleman, not handled yet
  setupSent,       \* number of messages the middleman has sent
  setupContents,   \* gRecordingContents
  setupDeferred,   \* gDeferredRecordingDataMessages
  setupAccepted,   \* number of Introduction messages stored
  setupCrashed     \* the release assertion of part_005:156 failed

setupVars == <<gIntroductionMessage, setupKind, setupPc, setupInbox,
               setupSent, setupContents, setupDeferred, setupAccepted,
               setupCrashed>>

VARIABLES
  \* ---- group: mouse and keyboard events of the recording process ----
  evDelivered,  \* number of widget events handed to the process
  evReported    \* the calls of gOnMouseEvent and gOnKeyEvent, in order

evVars == <<evDelivered, evReported>>

VARIABLES
  \* ---- group: openSigninPage polls for the token ----
  authPc,       \* "closed", "querying", "sleeping" or "finished"
  retries,      \* part_002:160
  authToken,    \* whether setReplayUserToken has stored a token
  authPromise,  \* the polling promise: "pending", "resolved" or "rejected"
  authRace,     \* the promise of Promise.race, likewise
  authPings     \* the calls of pingTelemetry, each with authToken at the call

authVars == <<authPc, retries, authToken, authPromise, authRace, authPings>>

vars ==
  <<dataVars, streamVars, lockVars, forkVars, timeoutVars, pingVars,
    ckptVars, modeVars, bufVars, idleVars, divVars, atomVars, roleVars,
    sumVars, smVars, routeVars, manVars, extVars, flushVars, skVars,
    setupVars, evVars, authVars>>

\* What the actions of one group leave alone.
notData ==
  <<streamVars, lockVars, forkVars, timeoutVars, pingVars, ckptVars,
    modeVars, bufVars, idleVars, divVars, atomVars, roleVars, sumVars,
    smVars, routeVars, manVars, extVars, flushVars, skVars, setupVars,
    evVars, authVars>>
notStream ==
  <<dataVars, lockVars, forkVars, timeoutVars, pingVars, ckptVars,
    modeVars, bufVars, idleVars, divVars, atomVars, roleVars, sumVars,
    smVars, routeVars, manVars, extVars, flushVars, skVars, setupVars,
    evVars, authVars>>
notLock ==
  <<dataVars, streamVars, forkVars, timeoutVars, pingVars, ckptVars,
    modeVars, bufVars, idleVars, divVars, atomVars, roleVars, sumVars,
    smVars, routeVars, manVars, extVars, flushVars, skVars, setupVars,
    evVars, authVars>>
notFork ==
  <<dataVars, streamVars, lockVars, timeoutVars, pingVars, ckptVars,
    modeVars, bufVars, idleVars, divVars, atomVars, roleVars, sumVars,
    smVars, routeVars, manVars, extVars, flushVars, skVars, setupVars,
    evVars, authVars>>
notTimeout ==
  <<dataVars, streamVars, lockVars, forkVars, pingVars, ckptVars, modeVars,
    bufVars, idleVars, divVars, atomVars, roleVars, sumVars, smVars,
    routeVars, manVars, extVars, flushVars, skVars, setupVars, evVars,
    authVars>>
notPing ==
  <<dataVars, streamVars, lockVars, forkVars, timeoutVars, ckptVars,
    modeVars, bufVars, idleVars, divVars, atomVars, roleVars, sumVars,
    smVars, routeVars, manVars, extVars, flushVars, skVars, setupVars,
    evVars, authVars>>
notCkpt ==
  <<dataVars, streamVars, lockVars, forkVars, timeoutVars, pingVars,
    modeVars, bufVars, idleVars, divVars, atomVars, roleVars, sumVars,
    smVars, routeVars, manVars, extVars, flushVars, skVars, setupVars,
    evVars, authVars>>
notMode ==
  <<dataVars, streamVars, lockVars, forkVars, timeoutVars, pingVars,
    ckptVars, bufVars, idleVars, divVars, atomVars, roleVars, sumVars,
    smVars, routeVars, manVars, extVars, flushVars, skVars, setupVars,
    evVars, authVars>>
notBuf ==
  <<dataVars, streamVars, lockVars, forkVars, timeoutVars, pingVars,
    ckptVars, modeVars, idleVars, divVars, atomVars, roleVars, sumVars,
    smVars, routeVars, manVars, extVars, flushVars, skVars, setupVars,
    evVars, authVars>>
notIdle ==
  <<dataVars, streamVars, lockVars, forkVars, timeoutVars, pingVars,
    ckptVars, modeVars, bufVars, divVars, atomVars, roleVars, sumVars,
    smVars, routeVars, manVars, extVars, flushVars, skVars, setupVars,
    evVars, authVars>>
notDiv ==
  <<dataVars, streamVars, lockVars, forkVars, timeoutVars, pingVars,
    ckptVars, modeVars, bufVars, idleVars, atomVars, roleVars, sumVars,
    smVars, routeVars, manVars, extVars, flushVars, skVars, setupVars,
    evVars, authVars>>
notAtom ==
  <<dataVars, streamVars, lockVars, forkVars, timeoutVars, pingVars,
    ckptVars, modeVars, bufVars, idleVars, divVars, roleVars, sumVars,
    smVars, routeVars, manVars, extVars, flushVars, skVars, setupVars,
    evVars, authVars>>
notRole ==
  <<dataVars, streamVars, lockVars, forkVars, timeoutVars, pingVars,
    ckptVars, modeVars, bufVars, idleVars, divVars, atomVars, sumVars,
    smVars, routeVars, manVars, extVars, flushVars, skVars, setupVars,
    evVars, authVars>>
notSum ==
  <<dataVars, streamVars, lockVars, forkVars, timeoutVars, pingVars,
    ckptVars, modeVars, bufVars, idleVars, divVars, atomVars, roleVars,
    smVars, routeVars, manVars, extVars, flushVars, skVars, setupVars,
    evVars, authVars>>
notSm ==
  <<dataVars, streamVars, lockVars, forkVars, timeoutVars, pingVars,
    ckptVars, modeVars, bufVars, idleVars, divVars, atomVars, roleVars,
    sumVars, routeVars, manVars, extVars, flushVars, skVars, setupVars,
    evVars, authVars>>
notRoute ==
  <<dataVars, streamVars, lockVars, forkVars, timeoutVars, pingVars,
    ckptVars, modeVars, bufVars, idleVars, divVars, atomVars, roleVars,
    sumVars, smVars, manVars, extVars, flushVars, skVars, setupVars,
    evVars, authVars>>
notMan ==
  <<dataVars, streamVars, lockVars, forkVars, timeoutVars, pingVars,
    ckptVars, modeVars, bufVars, idleVars, divVars, atomVars, roleVars,
    sumVars, smVars, routeVars, extVars, flushVars, skVars, setupVars,
    evVars, authVars>>
notExt ==
  <<dataVars, streamVars, lockVars, forkVars, timeoutVars, pingVars,
    ckptVars, modeVars, bufVars, idleVars, divVars, atomVars, roleVars,
    sumVars, smVars, routeVars, manVars, flushVars, skVars, setupVars,
    evVars, authVars>>
notFlush ==
  <<dataVars, streamVars, lockVars, forkVars, timeoutVars, pingVars,
    ckptVars, modeVars, bufVars, idleVars, divVars, atomVars, roleVars,
    sumVars, smVars, routeVars, manVars, extVars, skVars, setupVars,
    evVars, authVars>>
notSk ==
  <<dataVars, streamVars, lockVars, forkVars, timeoutVars, pingVars,
    ckptVars, modeVars, bufVars, idleVars, divVars, atomVars, roleVars,
    sumVars, smVars, routeVars, manVars, extVars, flushVars, setupVars,
    evVars, authVars>>
notSetup ==
  <<dataVars, streamVars, lockVars, forkVars, timeoutVars, pingVars,
    ckptVars, modeVars, bufVars, idleVars, divVars, atomVars, roleVars,
    sumVars, smVars, routeVars, manVars, extVars, flushVars, skVars,
    evVars, authVars>>
notEv ==
  <<dataVars, streamVars, lockVars, forkVars, timeoutVars, pingVars,
    ckptVars, modeVars, bufVars, idleVars, divVars, atomVars, roleVars,
    sumVars, smVars, routeVars, manVars, extVars, flushVars, skVars,
    setupVars, authVars>>
notAuth ==
  <<dataVars, streamVars, lockVars, forkVars, timeoutVars, pingVars,
    ckptVars, modeVars, bufVars, idleVars, divVars, atomVars, roleVars,
    sumVars, smVars, routeVars, manVars, extVars, flushVars, skVars,
    setupVars, evVars>>

(***************************************************************************)
(* Helpers on sequences.                                                   *)
(***************************************************************************)
IsPrefix(s, t) == Len(s) <= Len(t) /\ SubSeq(t, 1, Len(s)) = s

RemoveAt(s, i) == SubSeq(s, 1, i - 1) \o SubSeq(s, i + 1, Len(s))

(***************************************************************************)
(* The recording held by the sender.  The byte at offset i (0-based) is    *)
(* i + 1, so that a byte stored at the wrong offset is visible.            *)
(***************************************************************************)
RecordingBytes == [i \in 1..MaxLen |-> i]

\* A RecordingDataMessage: mTag is the start offset, data the payload
\* (Channel.h: BinaryMessage<RecordingData>).
RecordingDataMessage(start, size) ==
  [mTag |-> start, data |-> SubSeq(RecordingBytes, start + 1, start + size)]

\* The messages the sender can produce: slices of its recording.
ValidMessages ==
  { RecordingDataMessage(p[1], p[2]) :
      p \in { q \in (0..(MaxLen - 1)) \X (1..MaxChunk) : q[1] + q[2] <= MaxLen } }

(***************************************************************************)
(* IncorporateRecordingData (part_005:719-732).  Returns whether the       *)
(* message was contiguous with the contents, and the new contents.         *)
(***************************************************************************)
IncorporateRecordingData_Truncating(contents, aMsg) ==
  IF aMsg.mTag > Len(contents)
  THEN [ok |-> FALSE, contents |-> contents]
  ELSE [ok |-> TRUE,
        contents |-> SubSeq(contents, 1, aMsg.mTag) \o aMsg.data]

IncorporateRecordingData(contents, aMsg) ==
  IF aMsg.mTag > Len(contents)
  THEN [ok |-> FALSE, contents |-> contents]
  ELSE LET size == Len(aMsg.data)
           extent == aMsg.mTag + size
       IN IF extent > Len(contents)
          THEN LET nbytes == extent - Len(contents)
               IN [ok |-> TRUE,
                   contents |-> contents \o
                                SubSeq(aMsg.data, size - nbytes + 1, size)]
          ELSE [ok |-> TRUE, contents |-> contents]

(***************************************************************************)
(* The loop over gDeferredRecordingDataMessages in OnNewRecordingData      *)
(* (part_005:741-750): one pass, index i is 1-based here.  A message that  *)
(* is incorporated is erased and i stays; otherwise i advances.            *)
(***************************************************************************)
RECURSIVE DeferredPass(_, _, _)
DeferredPass(contents, deferred, i) ==
  IF i > Len(deferred)
  THEN [contents |-> contents, deferred |-> deferred]
  ELSE LET r == IncorporateRecordingData(contents, deferred[i])
       IN IF r.ok
          THEN DeferredPass(r.contents, RemoveAt(deferred, i), i)
          ELSE DeferredPass(contents, deferred, i + 1)

\* The body of OnNewRecordingData (part_005:737-757) on the contents and the
\* deferred messages of a process; notify is whether NotifyAll was called.
HandleRecordingData(contents, deferred, aMsg) ==
  LET r == IncorporateRecordingData(contents, aMsg)
  IN IF r.ok
     THEN LET d == DeferredPass(r.contents, deferred, 1)
          IN [contents |-> d.contents, deferred |-> d.deferred,
              notify |-> TRUE]
     ELSE [contents |-> contents, deferred |-> Append(deferred, aMsg),
           notify |-> FALSE]

NotifyAll == [t \in Threads |-> (pc[t] = "waiting") \/ notified[t]]

(***************************************************************************)
(* OnNewRecordingData (part_005:734-758), reached from                     *)
(* ChannelMessageHandler on a RecordingData message (part_005:228-230).    *)
(***************************************************************************)
OnNewRecordingData(aMsg) ==
  /\ ~crashed
  /\ Len(delivered) < MaxMsgs
  /\ delivered' = Append(delivered, aMsg)
  /\ LET r == HandleRecordingData(gRecordingContents,
                                  gDeferredRecordingDataMessages, aMsg)
     IN /\ gRecordingContents' = r.contents
        /\ gDeferredRecordingDataMessages' = r.deferred
        /\ notified' = IF r.notify THEN NotifyAll ELSE notified
  /\ UNCHANGED <<gRecording, pc, need, resumed, crashed>>
  /\ UNCHANGED notData

(***************************************************************************)
(* EnsureRecordingLength (part_005:1240-1254) in a process with            *)
(* gForkId = 0: no request is sent.  The call holds gMonitor; Wait()       *)
(* releases it, so the call up to Wait() is one step and each wake-up is   *)
(* one step.                                                               *)
(***************************************************************************)
MustWait_OffByOne(length, aLength) == length + 1 < aLength

\* The loop condition of part_005:1248.
MustWait(length, aLength) == length < aLength

EnsureRecordingLength(t, aLength) ==
  /\ ~crashed
  /\ pc[t] = "idle"
  /\ need' = [need EXCEPT ![t] = aLength]
  /\ IF MustWait(Len(gRecordingContents), aLength)
     THEN pc' = [pc EXCEPT ![t] = "waiting"]
     ELSE pc' = [pc EXCEPT ![t] = "done"]
  /\ UNCHANGED <<gRecordingContents, gDeferredRecordingDataMessages,
                 gRecording, delivered, notified, resumed, crashed>>
  /\ UNCHANGED notData

\* gMonitor->Wait() returns after a NotifyAll and the loop tests again.
EnsureRecordingLengthWake(t) ==
  /\ ~crashed
  /\ pc[t] = "waiting"
  /\ notified[t]
  /\ notified' = [notified EXCEPT ![t] = FALSE]
  /\ IF MustWait(Len(gRecordingContents), need[t])
     THEN UNCHANGED <<pc, resumed>>
     ELSE /\ pc' = [pc EXCEPT ![t] = "done"]
          /\ resumed' = [resumed EXCEPT ![t] = TRUE]
  /\ UNCHANGED <<gRecordingContents, gDeferredRecordingDataMessages,
                 gRecording, delivered, need, crashed>>
  /\ UNCHANGED notData

\* The caller goes on after the call returned.
EnsureRecordingLengthReturn(t) ==
  /\ ~crashed
  /\ pc[t] = "done"
  /\ pc' = [pc EXCEPT ![t] = "idle"]
  /\ need' = [need EXCEPT ![t] = 0]
  /\ resumed' = [resumed EXCEPT ![t] = FALSE]
  /\ UNCHANGED <<gRecordingContents, gDeferredRecordingDataMessages,
                 gRecording, delivered, notified, crashed>>
  /\ UNCHANGED notData

(***************************************************************************)
(* AddPendingRecordingData (part_005:760-799), main thread.  The received  *)
(* contents beyond gRecording->Size() are handed to Recording::NewContents,*)
(* which extends the recording contiguously.                               *)
(***************************************************************************)
NewContents(recording, bytes) == recording \o bytes

AddPendingRecordingData(aRequireMore) ==
  /\ ~crashed
  /\ pc[MainThreadId] = "idle"
  /\ IF Len(gRecordingContents) = Len(gRecording)
     THEN /\ crashed' = aRequireMore
          /\ UNCHANGED gRecording
     ELSE /\ gRecording' =
               NewContents(gRecording,
                           SubSeq(gRecordingContents, Len(gRecording) + 1,
                                  Len(gRecordingContents)))
          /\ UNCHANGED crashed
  /\ UNCHANGED <<gRecordingContents, gDeferredRecordingDataMessages,
                 delivered, pc, need, notified, resumed>>
  /\ UNCHANGED notData

(***************************************************************************)
(* Event stream of one thread (main thread).  The stream is a flat         *)
(* sequence of scalars and bytes without type marks; a thread event is     *)
(* written as the scalar of its ThreadEvent kind.                          *)
(***************************************************************************)
\* Sizes of the buffers handed to RecordReplayBytes, and byte values.
MaxBytes == 1
Bytes == {0, 1}
\* Values handed to RecordReplayValue.
Values == {7, 42}
\* Calls made by the recording process, and by the replaying process.
MaxRecCalls == 2
MaxRepCalls == 2

ByteBuffers == UNION { [1..n -> Bytes] : n \in 0..MaxBytes }

\* ThreadEvent kinds, as the scalar written to the stream.
ThreadEventValue == 0
ThreadEventBytes == 1

\* The stream of a thread: contents, read cursor, fatal error if any.
Stream(ev, pos, fatal) == [events |-> ev, pos |-> pos, fatal |-> fatal]

\* Stream::ReadScalar.  Reading past the end is HitEndOfRecording
\* (ProcessRecordReplay.cpp:313-325): on the main thread with no pending
\* data AddPendingRecordingData(true) crashes (part_005:770-781).
ReadScalar(S) ==
  IF S.fatal # "none" THEN [s |-> S, v |-> 0]
  ELSE IF S.pos >= Len(S.events)
  THEN [s |-> [S EXCEPT !.fatal = "HitEndOfRecording"], v |-> 0]
  ELSE [s |-> [S EXCEPT !.pos = @ + 1], v |-> S.events[S.pos + 1]]

\* Stream::WriteScalar.
WriteScalar(S, v) == [S EXCEPT !.events = Append(@, v)]

\* Stream::RecordOrReplayThreadEvent: while recording writes the kind, while
\* replaying reads the next kind and a different kind is a fatal mismatch.
RecordOrReplayThreadEvent(S, kind, aEvent) ==
  IF kind = "Recording" THEN WriteScalar(S, aEvent)
  ELSE LET r == ReadScalar(S)
       IN IF r.s.fatal = "none" /\ r.v # aEvent
          THEN [S EXCEPT !.fatal = "KindMismatch"]
          ELSE r.s

\* Stream::RecordOrReplayValue: writes the value, or replaces it by the
\* stored one.
RecordOrReplayValue(S, kind, aValue) ==
  IF kind = "Recording" THEN [s |-> WriteScalar(S, aValue), v |-> aValue]
  ELSE LET r == ReadScalar(S)
       IN IF r.s.fatal = "none" THEN r ELSE [s |-> r.s, v |-> aValue]

\* Stream::CheckInput: writes the scalar, or compares it with the stored one.
CheckInput(S, kind, aValue) ==
  IF kind = "Recording" THEN WriteScalar(S, aValue)
  ELSE LET r == ReadScalar(S)
       IN IF r.s.fatal = "none" /\ r.v # aValue
          THEN [S EXCEPT !.fatal = "InputMismatch"]
          ELSE r.s

\* Stream::RecordOrReplayBytes: copies aSize bytes of the buffer into the
\* stream, or aSize bytes of the stream over the buffer.
RecordOrReplayBytes(S, kind, aData, aSize) ==
  IF kind = "Recording"
  THEN [s |-> [S EXCEPT !.events = @ \o SubSeq(aData, 1, aSize)], v |-> aData]
  ELSE IF S.fatal # "none" THEN [s |-> S, v |-> aData]
  ELSE IF S.pos + aSize > Len(S.events)
  THEN [s |-> [S EXCEPT !.fatal = "HitEndOfRecording"], v |-> aData]
  ELSE [s |-> [S EXCEPT !.pos = @ + aSize],
        v |-> SubSeq(S.events, S.pos + 1, S.pos + aSize) \o
              SubSeq(aData, aSize + 1, Len(aData))]

\* RecordingEventSection::CanAccessEvents for a thread that has not
\* diverged: false while the thread passes events through.
CanAccessEvents(passThrough) == ~passThrough

(***************************************************************************)
(* RecordReplayInterface_InternalRecordReplayValue                         *)
(* (ProcessRecordReplay.cpp:234-245).                                      *)
(***************************************************************************)
InternalRecordReplayValue_ReturnsArgument(S, kind, passThrough, aValue) ==
  IF ~CanAccessEvents(passThrough) THEN [s |-> S, v |-> aValue]
  ELSE LET s1 == RecordOrReplayThreadEvent(S, kind, ThreadEventValue)
           r == RecordOrReplayValue(s1, kind, aValue)
       IN [s |-> r.s, v |-> aValue]

InternalRecordReplayValue(S, kind, passThrough, aValue) ==
  IF ~CanAccessEvents(passThrough) THEN [s |-> S, v |-> aValue]
  ELSE LET s1 == RecordOrReplayThreadEvent(S, kind, ThreadEventValue)
       IN RecordOrReplayValue(s1, kind, aValue)

(***************************************************************************)
(* RecordReplayInterface_InternalRecordReplayBytes                         *)
(* (ProcessRecordReplay.cpp:247-258).                                      *)
(***************************************************************************)
InternalRecordReplayBytes_WrongEvent(S, kind, passThrough, aData, aSize) ==
  IF ~CanAccessEvents(passThrough) THEN [s |-> S, v |-> aData]
  ELSE LET s1 == RecordOrReplayThreadEvent(S, kind, ThreadEventValue)
           s2 == CheckInput(s1, kind, aSize)
       IN RecordOrReplayBytes(s2, kind, aData, aSize)

InternalRecordReplayBytes(S, kind, passThrough, aData, aSize) ==
  IF ~CanAccessEvents(passThrough) THEN [s |-> S, v |-> aData]
  ELSE LET s1 == RecordOrReplayThreadEvent(S, kind, ThreadEventBytes)
           s2 == CheckInput(s1, kind, aSize)
       IN RecordOrReplayBytes(s2, kind, aData, aSize)

(***************************************************************************)
(* The inline wrappers of RecordReplay.h:381-404: the internal function is *)
(* called when the process is recording or replaying, otherwise the        *)
(* default (the caller's value) is returned.                               *)
(***************************************************************************)
IsRecordingOrReplaying(kind) == kind \in {"Recording", "Replaying"}

WrapRecordReplayValue_RecordingOnly(S, kind, passThrough, aValue) ==
  IF kind = "Recording"
  THEN InternalRecordReplayValue(S, kind, passThrough, aValue)
  ELSE [s |-> S, v |-> aValue]

WrapRecordReplayValue(S, kind, passThrough, aValue) ==
  IF IsRecordingOrReplaying(kind)
  THEN InternalRecordReplayValue(S, kind, passThrough, aValue)
  ELSE [s |-> S, v |-> aValue]

WrapRecordReplayBytes_WholeBuffer(S, kind, passThrough, aData, aSize) ==
  IF IsRecordingOrReplaying(kind)
  THEN InternalRecordReplayBytes(S, kind, passThrough, aData, Len(aData))
  ELSE [s |-> S, v |-> aData]

WrapRecordReplayBytes(S, kind, passThrough, aData, aSize) ==
  IF IsRecordingOrReplaying(kind)
  THEN InternalRecordReplayBytes(S, kind, passThrough, aData, aSize)
  ELSE [s |-> S, v |-> aData]

\* One entry of the call histories.
Call(kind, passThrough, arg, result, completed) ==
  [kind |-> kind, pt |-> passThrough, arg |-> arg, result |-> result,
   completed |-> completed]

Log(call) ==
  IF processKind = "Recording"
  THEN /\ recCalls' = Append(recCalls, call)
       /\ UNCHANGED repCalls
  ELSE /\ repCalls' = Append(repCalls, call)
       /\ UNCHANGED recCalls

CanCall ==
  /\ fatalError = "none"
  /\ IF processKind = "Recording" THEN Len(recCalls) < MaxRecCalls
                                  ELSE Len(repCalls) < MaxRepCalls

\* The thread calls RecordReplayValue(aWhy, aValue), inside or outside a
\* pass-through region.
RecordReplayValue(aValue, passThrough) ==
  /\ CanCall
  /\ LET r == WrapRecordReplayValue(Stream(events, streamPos, fatalError),
                                    processKind, passThrough, aValue)
     IN /\ events' = r.s.events
        /\ streamPos' = r.s.pos
        /\ fatalError' = r.s.fatal
        /\ Log(Call("Value", passThrough, aValue, r.v, r.s.fatal = "none"))
  /\ UNCHANGED processKind
  /\ UNCHANGED notStream

\* The thread calls RecordReplayBytes(aWhy, aData, aSize) on a buffer.
RecordReplayBytes(aData, passThrough) ==
  /\ CanCall
  /\ LET r == WrapRecordReplayBytes(Stream(events, streamPos, fatalError),
                                    processKind, passThrough, aData, Len(aData))
     IN /\ events' = r.s.events
        /\ streamPos' = r.s.pos
        /\ fatalError' = r.s.fatal
        /\ Log(Call("Bytes", passThrough, aData, r.v, r.s.fatal = "none"))
  /\ UNCHANGED processKind
  /\ UNCHANGED notStream

\* The recording is finished and a replaying process is started on it
\* (RecordReplayInterface_Initialize with ProcessKind::Replaying,
\* ProcessRecordReplay.cpp:127-135): the stream is read from its start.
StartReplaying ==
  /\ processKind = "Recording"
  /\ processKind' = "Replaying"
  /\ streamPos' = 0
  /\ UNCHANGED <<events, fatalError, recCalls, repCalls>>
  /\ UNCHANGED notStream

StreamStart ==
  /\ processKind = "Recording"
  /\ events = <<>>
  /\ streamPos = 0
  /\ fatalError = "none"
  /\ recCalls = <<>>
  /\ repCalls = <<>>

NextStream ==
  \/ \E v \in Values, pt \in BOOLEAN : RecordReplayValue(v, pt)
  \/ \E b \in ByteBuffers, pt \in BOOLEAN : RecordReplayBytes(b, pt)
  \/ StartReplaying

(***************************************************************************)
(* Ordered locks.  RecordReplay.h:171-183 declares CreateOrderedLock,      *)
(* OrderedLock, OrderedUnlock and AutoOrderedLock; the wrappers of         *)
(* RecordReplay.h:416-419 call the internal functions when the process is  *)
(* recording or replaying.  The implementation behind them is not in the   *)
(* sources at hand and follows the Ordered Lock protocol description:      *)
(* recording takes the underlying lock and then appends the acquirer to    *)
(* the shared lock stream; replaying waits until the next entry of the     *)
(* lock stream names this thread and this lock and then takes the          *)
(* underlying lock; a pass-through thread locks without ordering.          *)
(***************************************************************************)
\* OrderedLock calls made while recording, over all threads.
MaxAcquires == 3

Locks == {1, 2}
NoThread == 0
NoLock == 0

LockEntry(t, aLock) == [thread |-> t, lock |-> aLock]

\* Number of OrderedLock calls made so far by all threads.
TotalLockCalls == Len(lockCalls[1]) + Len(lockCalls[2])

\* A pass-through thread's lock calls are not ordered.
IsOrderedAcquire(passThrough) == ~passThrough

\* While replaying: the next lock stream entry is this thread's acquire.
IsTurn(t, aLock) ==
  /\ lockCursor < Len(lockStream)
  /\ lockStream[lockCursor + 1] = LockEntry(t, aLock)

\* The thread can get out of the internal OrderedLock.
InternalOrderedLockReady(t, aLock, passThrough) ==
  /\ lockOwner[aLock] = NoThread
  /\ (lockKind = "Replaying" /\ IsOrderedAcquire(passThrough))
       => IsTurn(t, aLock)

InternalOrderedLock(t, aLock, passThrough) ==
  /\ InternalOrderedLockReady(t, aLock, passThrough)
  /\ lockOwner' = [lockOwner EXCEPT ![aLock] = t]
  /\ lockStream' =
       IF lockKind = "Recording" /\ IsOrderedAcquire(passThrough)
       THEN Append(lockStream, LockEntry(t, aLock))
       ELSE lockStream
  /\ lockCursor' =
       IF lockKind = "Replaying" /\ IsOrderedAcquire(passThrough)
       THEN lockCursor + 1
       ELSE lockCursor

InternalOrderedUnlock(t, aLock) ==
  lockOwner' = [lockOwner EXCEPT
                  ![aLock] = IF @ = t THEN NoThread ELSE @]

\* MOZ_MAKE_RECORD_REPLAY_WRAPPER_VOID(OrderedLock, ...), RecordReplay.h:418.
WrapOrderedLock_RecordingOnly(kind) == kind = "Recording"

WrapOrderedLock(kind) == IsRecordingOrReplaying(kind)

\* MOZ_MAKE_RECORD_REPLAY_WRAPPER_VOID(OrderedUnlock, ...), RecordReplay.h:419.
WrapOrderedUnlock(kind) == IsRecordingOrReplaying(kind)

\* Thread t calls OrderedLock(aLock) and the call returns (the constructor
\* of AutoOrderedLock, RecordReplay.h:181).
OrderedLock(t, aLock, passThrough) ==
  /\ lockScope[t] = NoLock
  /\ IF WrapOrderedLock(lockKind)
     THEN InternalOrderedLock(t, aLock, passThrough)
     ELSE UNCHANGED <<lockOwner, lockStream, lockCursor>>
  /\ lockScope' = [lockScope EXCEPT ![t] = aLock]
  /\ IF lockKind = "Recording"
     THEN /\ lockCalls' = [lockCalls EXCEPT
                             ![t] = Append(@, [lock |-> aLock,
                                               pt |-> passThrough])]
          /\ UNCHANGED <<lockCallPos, replayAcquires>>
     ELSE /\ lockCallPos' = [lockCallPos EXCEPT ![t] = @ + 1]
          /\ replayAcquires' =
               IF IsOrderedAcquire(passThrough)
               THEN Append(replayAcquires, LockEntry(t, aLock))
               ELSE replayAcquires
          /\ UNCHANGED lockCalls
  /\ UNCHANGED lockKind
  /\ UNCHANGED notLock

\* While recording a thread locks whichever lock its code reaches.
RecordingOrderedLock(t, aLock, passThrough) ==
  /\ lockKind = "Recording"
  /\ TotalLockCalls < MaxAcquires
  /\ OrderedLock(t, aLock, passThrough)

\* While replaying a thread repeats the calls it made while recording.
ReplayingOrderedLock(t) ==
  /\ lockKind = "Replaying"
  /\ lockCallPos[t] < Len(lockCalls[t])
  /\ LET call == lockCalls[t][lockCallPos[t] + 1]
     IN OrderedLock(t, call.lock, call.pt)

\* Thread t calls OrderedUnlock on the lock it holds (the destructor of
\* AutoOrderedLock, RecordReplay.h:182).
OrderedUnlock(t) ==
  /\ lockScope[t] # NoLock
  /\ IF WrapOrderedUnlock(lockKind)
     THEN InternalOrderedUnlock(t, lockScope[t])
     ELSE UNCHANGED lockOwner
  /\ lockScope' = [lockScope EXCEPT ![t] = NoLock]
  /\ UNCHANGED <<lockKind, lockStream, lockCursor, lockCalls, lockCallPos,
                 replayAcquires>>
  /\ UNCHANGED notLock

\* The recording is finished with every lock released, and a replaying
\* process is started on it.
LockStartReplaying ==
  /\ lockKind = "Recording"
  /\ \A t \in Threads : lockScope[t] = NoLock
  /\ lockKind' = "Replaying"
  /\ lockCursor' = 0
  /\ UNCHANGED <<lockOwner, lockStream, lockCalls, lockCallPos, lockScope,
                 replayAcquires>>
  /\ UNCHANGED notLock

LockStart ==
  /\ lockKind = "Recording"
  /\ lockOwner = [l \in Locks |-> NoThread]
  /\ lockStream = <<>>
  /\ lockCursor = 0
  /\ lockCalls = [t \in Threads |-> <<>>]
  /\ lockCallPos = [t \in Threads |-> 0]
  /\ lockScope = [t \in Threads |-> NoLock]
  /\ replayAcquires = <<>>

NextLock ==
  \/ \E t \in Threads, l \in Locks, pt \in BOOLEAN :
       RecordingOrderedLock(t, l, pt)
  \/ \E t \in Threads : ReplayingOrderedLock(t)
  \/ \E t \in Threads : OrderedUnlock(t)
  \/ LockStartReplaying

(***************************************************************************)
(* A replaying root process (gForkId = 0) and the processes it forks.      *)
(* Lengths and offsets of this group are counted in blocks of 2^30 bytes,  *)
(* so that lengths of 2^32 bytes and more are within reach: a length of k  *)
(* blocks is k * 2^30 bytes, and a 32-bit unsigned integer holds a length  *)
(* of whole blocks modulo 4 blocks.                                        *)
(***************************************************************************)
\* Length of the whole recording, in blocks.
MaxForkLen == 5

\* 2^32 bytes in blocks: the range of uint32_t aRequiredLength
\* (Channel.h:358).
Uint32Blocks == 4

\* Fork ids handed to PerformFork.
ForkIds == {7, 8}

\* The recording held by the middleman; the block at offset i is i + 1.
ForkRecording == [i \in 1..MaxForkLen |-> i]

\* RecordingDataMessage::New(aForkId, aStart, contents + aStart, aSize)
\* (part_005:504-507).
NewRecordingDataMessage(aForkId, aStart, contents, aSize) ==
  [mForkId |-> aForkId, mTag |-> aStart,
   data |-> SubSeq(contents, aStart + 1, aStart + aSize)]

\* The constructor of UpdateRecordingFromRootMessage (Channel.h:357-366):
\* aStart is a uint64_t and aRequiredLength a uint32_t.
UpdateRecordingFromRootMessage(aForkId, aStart, aRequiredLength) ==
  [mForkId |-> aForkId, mStart |-> aStart,
   mRequiredLength |-> aRequiredLength % Uint32Blocks]

(***************************************************************************)
(* ReadWriteSpinLock gForkLock (part_005:109-112).  The class is not in    *)
(* the sources at hand: a count of readers, with a distinguished value     *)
(* while the writer holds the lock.  A reader gets in when no writer holds *)
(* the lock, the writer when there is no reader.                           *)
(***************************************************************************)
WriteLocked == 0 - 1

ReadLockReady(lock) == lock # WriteLocked
ReadLock(lock) == lock + 1
ReadUnlock(lock) == lock - 1
WriteLockReady(lock) == lock = 0
WriteUnlock(lock) == 0
\* The fork lock left as the clone found it.
PodZero_Keep(lock) == lock

\* PodZero(&gForkLock), part_005:569.
PodZero(lock) == 0

\* gMonitor of the root is held by the fork listener while it registers a
\* fork (part_005:426); the other holders keep it for one step only.
MonitorFree == listenerPc # "registering"

\* The root threads that are inside an AutoReadSpinLock section.
ReadersInSection ==
  (IF chanPc = "handling" THEN {"channel"} ELSE {})
    \cup (IF listenerPc = "registering" THEN {"listener"} ELSE {})
    \cup { f \in ForkIds : handlerPc[f] = "locked" }

(***************************************************************************)
(* PerformFork (part_005:555-596) on the root's main thread, in three      *)
(* steps: WriteLock, the clone made by ForkProcess, and WriteUnlock in the *)
(* original process.                                                       *)
(***************************************************************************)
PerformForkWriteLock_NoLock(aForkId) ==
  /\ ~rootCrashed
  /\ mainPc = "idle"
  /\ forkState[aForkId] = "none"
  /\ mainPc' = "locked"
  /\ mainForkId' = aForkId
  /\ UNCHANGED <<rootContents, rootDeferred, gForkLock, chanPc, forkPipe,
                 listenerPc, listenerFork, gForkedProcesses,
                 gPendingForkMessages, rootCrashed, forkState, forkLock,
                 forkContents, forkDeferred, forkPc, forkNeed, toRoot, toFork,
                 handlerPc, handlerMsg>>
  /\ UNCHANGED notFork

\* gForkLock.WriteLock(), part_005:557.
PerformForkWriteLock(aForkId) ==
  /\ ~rootCrashed
  /\ mainPc = "idle"
  /\ forkState[aForkId] = "none"
  /\ WriteLockReady(gForkLock)
  /\ gForkLock' = WriteLocked
  /\ mainPc' = "locked"
  /\ mainForkId' = aForkId
  /\ UNCHANGED <<rootContents, rootDeferred, chanPc, forkPipe, listenerPc,
                 listenerFork, gForkedProcesses, gPendingForkMessages,
                 rootCrashed, forkState, forkLock, forkContents, forkDeferred,
                 forkPc, forkNeed, toRoot, toFork, handlerPc, handlerMsg>>
  /\ UNCHANGED notFork

\* ForkProcess(aForkId), part_005:560: the clone inherits the memory of the
\* root as it is at this moment, the fork lock included.
PerformForkClone ==
  /\ ~rootCrashed
  /\ mainPc = "locked"
  /\ mainPc' = "cloned"
  /\ forkState' = [forkState EXCEPT ![mainForkId] = "child"]
  /\ forkLock' = [forkLock EXCEPT ![mainForkId] = gForkLock]
  /\ forkContents' = [forkContents EXCEPT ![mainForkId] = rootContents]
  /\ forkDeferred' = [forkDeferred EXCEPT ![mainForkId] = rootDeferred]
  /\ UNCHANGED <<rootContents, rootDeferred, gForkLock, mainForkId, chanPc,
                 forkPipe, listenerPc, listenerFork, gForkedProcesses,
                 gPendingForkMessages, rootCrashed, forkPc, forkNeed, toRoot,
                 toFork, handlerPc, handlerMsg>>
  /\ UNCHANGED notFork

\* The original process: gForkLock.WriteUnlock(), part_005:562.
PerformForkWriteUnlock ==
  /\ ~rootCrashed
  /\ mainPc = "cloned"
  /\ gForkLock' = WriteUnlock(gForkLock)
  /\ mainPc' = "idle"
  /\ UNCHANGED <<rootContents, rootDeferred, mainForkId, chanPc, forkPipe,
                 listenerPc, listenerFork, gForkedProcesses,
                 gPendingForkMessages, rootCrashed, forkState, forkLock,
                 forkContents, forkDeferred, forkPc, forkNeed, toRoot, toFork,
                 handlerPc, handlerMsg>>
  /\ UNCHANGED notFork

\* The new process, part_005:566-588: the fork lock is reset, gForkId is
\* set, the channel is created and the ForkedProcess record is written to
\* the pipe read by the root's fork listener.
PerformForkChild(f) ==
  /\ forkState[f] = "child"
  /\ forkLock' = [forkLock EXCEPT ![f] = PodZero(@)]
  /\ forkState' = [forkState EXCEPT ![f] = "running"]
  /\ forkPipe' = Append(forkPipe, f)
  /\ UNCHANGED <<rootContents, rootDeferred, gForkLock, mainPc, mainForkId,
                 chanPc, listenerPc, listenerFork, gForkedProcesses,
                 gPendingForkMessages, rootCrashed, forkContents,
                 forkDeferred, forkPc, forkNeed, toRoot, toFork, handlerPc,
                 handlerMsg>>
  /\ UNCHANGED notFork

(***************************************************************************)
(* ForkListenerThread (part_005:417-450) in the root, in two steps: the    *)
(* record is read and the read lock and gMonitor are taken; then the       *)
(* pending messages of that fork are sent, the fork is registered and the  *)
(* locks are released.                                                     *)
(***************************************************************************)
ForkListenerThreadRead ==
  /\ ~rootCrashed
  /\ listenerPc = "idle"
  /\ forkPipe # <<>>
  /\ ReadLockReady(gForkLock)
  /\ gForkLock' = ReadLock(gForkLock)
  /\ listenerFork' = Head(forkPipe)
  /\ forkPipe' = Tail(forkPipe)
  /\ listenerPc' = "registering"
  /\ UNCHANGED <<rootContents, rootDeferred, mainPc, mainForkId, chanPc,
                 gForkedProcesses, gPendingForkMessages, rootCrashed,
                 forkState, forkLock, forkContents, forkDeferred, forkPc,
                 forkNeed, toRoot, toFork, handlerPc, handlerMsg>>
  /\ UNCHANGED notFork

ForkListenerThreadRegister ==
  /\ ~rootCrashed
  /\ listenerPc = "registering"
  /\ toFork' = [toFork EXCEPT ![listenerFork] =
                  @ \o SelectSeq(gPendingForkMessages,
                                 LAMBDA m : m.mForkId = listenerFork)]
  /\ gPendingForkMessages' =
       SelectSeq(gPendingForkMessages, LAMBDA m : m.mForkId # listenerFork)
  /\ gForkedProcesses' = gForkedProcesses \cup {listenerFork}
  /\ gForkLock' = ReadUnlock(gForkLock)
  /\ listenerPc' = "idle"
  /\ UNCHANGED <<rootContents, rootDeferred, mainPc, mainForkId, chanPc,
                 forkPipe, listenerFork, rootCrashed, forkState, forkLock,
                 forkContents, forkDeferred, forkPc, forkNeed, toRoot,
                 handlerPc, handlerMsg>>
  /\ UNCHANGED notFork

(***************************************************************************)
(* ChannelMessageHandler (part_005:118-248) in the root, for the           *)
(* RecordingData messages of the middleman, which sends the recording      *)
(* block by block: the read lock is taken (part_005:152), then             *)
(* OnNewRecordingData runs under gMonitor and the lock is released.        *)
(***************************************************************************)
RootChannelMessageHandlerLock ==
  /\ ~rootCrashed
  /\ chanPc = "idle"
  /\ Len(rootContents) < MaxForkLen
  /\ ReadLockReady(gForkLock)
  /\ gForkLock' = ReadLock(gForkLock)
  /\ chanPc' = "handling"
  /\ UNCHANGED <<rootContents, rootDeferred, mainPc, mainForkId, forkPipe,
                 listenerPc, listenerFork, gForkedProcesses,
                 gPendingForkMessages, rootCrashed, forkState, forkLock,
                 forkContents, forkDeferred, forkPc, forkNeed, toRoot, toFork,
                 handlerPc, handlerMsg>>
  /\ UNCHANGED notFork

RootChannelMessageHandler ==
  /\ ~rootCrashed
  /\ chanPc = "handling"
  /\ MonitorFree
  /\ LET aMsg == NewRecordingDataMessage(0, Len(rootContents),
                                         ForkRecording, 1)
         r == HandleRecordingData(rootContents, rootDeferred, aMsg)
     IN /\ rootContents' = r.contents
        /\ rootDeferred' = r.deferred
  /\ gForkLock' = ReadUnlock(gForkLock)
  /\ chanPc' = "idle"
  /\ UNCHANGED <<mainPc, mainForkId, forkPipe, listenerPc, listenerFork,
                 gForkedProcesses, gPendingForkMessages, rootCrashed,
                 forkState, forkLock, forkContents, forkDeferred, forkPc,
                 forkNeed, toRoot, toFork, handlerPc, handlerMsg>>
  /\ UNCHANGED notFork

\* SendMessageToForkedProcess (part_005:464-488) for a message that is
\* neither Terminate nor Crash.
SendMessageToForkedProcess(aMsg) ==
  IF aMsg.mForkId \in gForkedProcesses
  THEN /\ toFork' = [toFork EXCEPT ![aMsg.mForkId] = Append(@, aMsg)]
       /\ UNCHANGED gPendingForkMessages
  ELSE /\ gPendingForkMessages' = Append(gPendingForkMessages, aMsg)
       /\ UNCHANGED toFork

\* The channel to fork f exists once the listener has created it
\* (part_005:428).
ForkChannelExists(f) ==
  \/ f \in gForkedProcesses
  \/ listenerPc = "registering" /\ listenerFork = f

(***************************************************************************)
(* HandleMessageFromForkedProcess (part_005:493-551) in the root, for an   *)
(* UpdateRecordingFromRoot message of fork f.  First step: the read lock   *)
(* is taken.  Second step: EnsureRecordingLength(mRequiredLength) has      *)
(* returned (the root sends no request, it waits on gMonitor), and the     *)
(* RecordingData reply is built and sent under gMonitor.  When             *)
(* mRequiredLength is below mStart the unsigned size of part_005:507 wraps *)
(* around and building the message ends the process.                       *)
(***************************************************************************)
\* A reply that carries everything the root holds beyond the start offset.
RecordingDataReply_AllContents(nmsg, contents) ==
  NewRecordingDataMessage(nmsg.mForkId, nmsg.mStart, contents,
                          Len(contents) - nmsg.mStart)

\* part_005:504-507: the reply to the request nmsg, built from the
\* contents of the root.
RecordingDataReply(nmsg, contents) ==
  NewRecordingDataMessage(nmsg.mForkId, nmsg.mStart, contents,
                          nmsg.mRequiredLength - nmsg.mStart)

HandleMessageFromForkedProcessLock(f) ==
  /\ ~rootCrashed
  /\ ForkChannelExists(f)
  /\ handlerPc[f] = "idle"
  /\ toRoot[f] # <<>>
  /\ ReadLockReady(gForkLock)
  /\ gForkLock' = ReadLock(gForkLock)
  /\ handlerMsg' = [handlerMsg EXCEPT ![f] = Head(toRoot[f])]
  /\ toRoot' = [toRoot EXCEPT ![f] = Tail(@)]
  /\ handlerPc' = [handlerPc EXCEPT ![f] = "locked"]
  /\ UNCHANGED <<rootContents, rootDeferred, mainPc, mainForkId, chanPc,
                 forkPipe, listenerPc, listenerFork, gForkedProcesses,
                 gPendingForkMessages, rootCrashed, forkState, forkLock,
                 forkContents, forkDeferred, forkPc, forkNeed, toFork>>
  /\ UNCHANGED notFork

HandleMessageFromForkedProcess(f) ==
  /\ ~rootCrashed
  /\ handlerPc[f] = "locked"
  /\ MonitorFree
  /\ ~MustWait(Len(rootContents), handlerMsg[f].mRequiredLength)
  /\ LET nmsg == handlerMsg[f]
     IN IF nmsg.mRequiredLength < nmsg.mStart
        THEN /\ rootCrashed' = TRUE
             /\ UNCHANGED <<toFork, gPendingForkMessages>>
        ELSE /\ SendMessageToForkedProcess(
                  RecordingDataReply(nmsg, rootContents))
             /\ UNCHANGED rootCrashed
  /\ gForkLock' = ReadUnlock(gForkLock)
  /\ handlerPc' = [handlerPc EXCEPT ![f] = "idle"]
  /\ UNCHANGED <<rootContents, rootDeferred, mainPc, mainForkId, chanPc,
                 forkPipe, listenerPc, listenerFork, gForkedProcesses,
                 forkState, forkLock, forkContents, forkDeferred, forkPc,
                 forkNeed, toRoot, handlerMsg>>
  /\ UNCHANGED notFork

(***************************************************************************)
(* The forked process f.  EnsureRecordingLength (part_005:1240-1254) with  *)
(* gForkId = f: when the contents are too short one request is sent to the *)
(* root and the thread waits on gMonitor until the contents are long       *)
(* enough.  ChannelMessageHandler of the fork hands a RecordingData        *)
(* message to OnNewRecordingData under the fork's own fork lock.           *)
(***************************************************************************)
ForkEnsureRecordingLength(f, aLength) ==
  /\ forkState[f] = "running"
  /\ forkPc[f] = "idle"
  /\ forkNeed' = [forkNeed EXCEPT ![f] = aLength]
  /\ IF MustWait(Len(forkContents[f]), aLength)
     THEN /\ toRoot' = [toRoot EXCEPT ![f] =
                 Append(@, UpdateRecordingFromRootMessage(
                             f, Len(forkContents[f]), aLength))]
          /\ forkPc' = [forkPc EXCEPT ![f] = "waiting"]
     ELSE /\ forkPc' = [forkPc EXCEPT ![f] = "done"]
          /\ UNCHANGED toRoot
  /\ UNCHANGED <<rootContents, rootDeferred, gForkLock, mainPc, mainForkId,
                 chanPc, forkPipe, listenerPc, listenerFork, gForkedProcesses,
                 gPendingForkMessages, rootCrashed, forkState, forkLock,
                 forkContents, forkDeferred, toFork, handlerPc, handlerMsg>>
  /\ UNCHANGED notFork

ForkChannelMessageHandler(f) ==
  /\ forkState[f] = "running"
  /\ toFork[f] # <<>>
  /\ ReadLockReady(forkLock[f])
  /\ LET r == HandleRecordingData(forkContents[f], forkDeferred[f],
                                  Head(toFork[f]))
     IN /\ forkContents' = [forkContents EXCEPT ![f] = r.contents]
        /\ forkDeferred' = [forkDeferred EXCEPT ![f] = r.deferred]
  /\ toFork' = [toFork EXCEPT ![f] = Tail(@)]
  /\ UNCHANGED <<rootContents, rootDeferred, gForkLock, mainPc, mainForkId,
                 chanPc, forkPipe, listenerPc, listenerFork, gForkedProcesses,
                 gPendingForkMessages, rootCrashed, forkState, forkLock,
                 forkPc, forkNeed, toRoot, handlerPc, handlerMsg>>
  /\ UNCHANGED notFork

\* The wait loop of part_005:1248-1252 ends and the call returns.
ForkEnsureRecordingLengthReturn(f) ==
  /\ forkState[f] = "running"
  /\ forkPc[f] = "waiting"
  /\ ~MustWait(Len(forkContents[f]), forkNeed[f])
  /\ forkPc' = [forkPc EXCEPT ![f] = "done"]
  /\ UNCHANGED <<rootContents, rootDeferred, gForkLock, mainPc, mainForkId,
                 chanPc, forkPipe, listenerPc, listenerFork, gForkedProcesses,
                 gPendingForkMessages, rootCrashed, forkState, forkLock,
                 forkContents, forkDeferred, forkNeed, toRoot, toFork,
                 handlerPc, handlerMsg>>
  /\ UNCHANGED notFork

NoMessage == [mForkId |-> 0, mStart |-> 0, mRequiredLength |-> 0]

ForkStart ==
  /\ rootContents = <<>>
  /\ rootDeferred = <<>>
  /\ gForkLock = 0
  /\ mainPc = "idle"
  /\ mainForkId = 0
  /\ chanPc = "idle"
  /\ forkPipe = <<>>
  /\ listenerPc = "idle"
  /\ listenerFork = 0
  /\ gForkedProcesses = {}
  /\ gPendingForkMessages = <<>>
  /\ rootCrashed = FALSE
  /\ forkState = [f \in ForkIds |-> "none"]
  /\ forkLock = [f \in ForkIds |-> 0]
  /\ forkContents = [f \in ForkIds |-> <<>>]
  /\ forkDeferred = [f \in ForkIds |-> <<>>]
  /\ forkPc = [f \in ForkIds |-> "idle"]
  /\ forkNeed = [f \in ForkIds |-> 0]
  /\ toRoot = [f \in ForkIds |-> <<>>]
  /\ toFork = [f \in ForkIds |-> <<>>]
  /\ handlerPc = [f \in ForkIds |-> "idle"]
  /\ handlerMsg = [f \in ForkIds |-> NoMessage]

NextFork ==
  \/ \E f \in ForkIds : PerformForkWriteLock(f)
  \/ PerformForkClone
  \/ PerformForkWriteUnlock
  \/ \E f \in ForkIds : PerformForkChild(f)
  \/ ForkListenerThreadRead
  \/ ForkListenerThreadRegister
  \/ RootChannelMessageHandlerLock
  \/ RootChannelMessageHandler
  \/ \E f \in ForkIds : HandleMessageFromForkedProcessLock(f)
  \/ \E f \in ForkIds : HandleMessageFromForkedProcess(f)
  \/ \E f \in ForkIds, n \in 0..MaxForkLen : ForkEnsureRecordingLength(f, n)
  \/ \E f \in ForkIds : ForkChannelMessageHandler(f)
  \/ \E f \in ForkIds : ForkEnsureRecordingLengthReturn(f)

(***************************************************************************)
(* The initialization timeout of a forked process (part_005:553,           *)
(* 590-595).  Time is counted in whole seconds.  The body of               *)
(* Channel::ExitIfNotInitializedBefore is not in the sources at hand: the  *)
(* caller waits on the channel's monitor until the channel is initialized  *)
(* and exits the process when the deadline passes first.                   *)
(***************************************************************************)
\* The last second of the clock.
MaxNow == 13

\* Seconds the new process takes at most from the clone to part_005:593.
MaxInitDelay == 1

ForkTimeoutSeconds == 10

ForkDeadline_Immediate(aNow) == aNow

\* TimeStamp::Now() + TimeDuration::FromSeconds(ForkTimeoutSeconds).
ForkDeadline(aNow) == aNow + ForkTimeoutSeconds

\* ForkProcess makes the clone (part_005:560).
TimeoutForkProcess ==
  /\ childPc = "unborn"
  /\ now + MaxInitDelay + ForkTimeoutSeconds <= MaxNow
  /\ childPc' = "cloned"
  /\ forkedAt' = now
  /\ UNCHANGED <<now, deadline, mInitialized, exitedAt>>
  /\ UNCHANGED notTimeout

\* The new process creates its channel, writes its record to the pipe of
\* the fork listener and computes the deadline (part_005:582-594), then
\* enters ExitIfNotInitializedBefore.
TimeoutPerformForkChild ==
  /\ childPc = "cloned"
  /\ deadline' = ForkDeadline(now)
  /\ childPc' = "waiting"
  /\ UNCHANGED <<now, forkedAt, mInitialized, exitedAt>>
  /\ UNCHANGED notTimeout

\* The root's fork listener connects to the fork (part_005:428): the fork's
\* channel becomes initialized.  A root that is exiting never does this.
ChannelConnected ==
  /\ childPc = "waiting"
  /\ ~mInitialized
  /\ mInitialized' = TRUE
  /\ UNCHANGED <<now, forkedAt, deadline, childPc, exitedAt>>
  /\ UNCHANGED notTimeout

\* One turn of the wait in ExitIfNotInitializedBefore that ends it: the
\* channel is initialized and the call returns, or the deadline has passed
\* and the process exits.
ExitIfNotInitializedBefore ==
  /\ childPc = "waiting"
  /\ mInitialized \/ now >= deadline
  /\ IF mInitialized
     THEN /\ childPc' = "running"
          /\ UNCHANGED exitedAt
     ELSE /\ childPc' = "exited"
          /\ exitedAt' = now
  /\ UNCHANGED <<now, forkedAt, deadline, mInitialized>>
  /\ UNCHANGED notTimeout

\* A second passes.
Tick ==
  /\ now < MaxNow
  /\ childPc = "cloned" => now < forkedAt + MaxInitDelay
  /\ now' = now + 1
  /\ UNCHANGED <<forkedAt, deadline, mInitialized, childPc, exitedAt>>
  /\ UNCHANGED notTimeout

TimeoutStart ==
  /\ now = 0
  /\ forkedAt = 0
  /\ deadline = 0
  /\ mInitialized = FALSE
  /\ childPc = "unborn"
  /\ exitedAt = 0

NextTimeout ==
  \/ TimeoutForkProcess
  \/ TimeoutPerformForkChild
  \/ ChannelConnected
  \/ ExitIfNotInitializedBefore
  \/ Tick

(***************************************************************************)
(* Hang detection.  The middleman sends Ping messages (Middleman_Ping,     *)
(* JSControl.cpp:349-369), receives the answers (ForwardPingResponse,      *)
(* JSControl.cpp:187-204) and crashes a hung process                       *)
(* (Middleman_CrashHangedChild, JSControl.cpp:486-504).  When it does so   *)
(* is decided by the control script, which is not in the sources at hand:  *)
(* one Ping per interval, and a process that left MissedIntervals          *)
(* intervals in a row without an answer is hung.  The process handles its  *)
(* messages one after the other on its channel thread                      *)
(* (Channel.h:400-401), in ChannelMessageHandler (part_005:118-248).       *)
(***************************************************************************)
\* Pings the middleman sends at most.
MaxPings == 4

\* PerformFork calls of the probed process.
MaxPingForks == 2

\* Intervals in a row without an answer after which a process is hung.
MissedIntervals == 2

PingMessage(aId) == [mType |-> "Ping", mId |-> aId]
CrashMessage == [mType |-> "Crash", mId |-> 0]
NoPing == [mType |-> "None", mId |-> 0]

\* The control script's timer fires: the answer to the last Ping is looked
\* for, and either the process is classified as hung and crashed, or the
\* next Ping is sent.
MiddlemanInterval ==
  /\ ~classifiedHung
  /\ LET missed == IF nextPingId > 1 /\ (nextPingId - 1) \notin answered
                   THEN missedIntervals + 1
                   ELSE 0
     IN /\ missedIntervals' = missed
        /\ IF missed >= MissedIntervals
           THEN /\ classifiedHung' = TRUE
                /\ crashSent' = TRUE
                /\ pingInbox' = Append(pingInbox, CrashMessage)
                /\ UNCHANGED nextPingId
           ELSE /\ nextPingId <= MaxPings \/ missed # missedIntervals
                /\ IF nextPingId <= MaxPings
                   THEN /\ pingInbox' = Append(pingInbox, PingMessage(nextPingId))
                        /\ nextPingId' = nextPingId + 1
                   ELSE UNCHANGED <<pingInbox, nextPingId>>
                /\ UNCHANGED <<classifiedHung, crashSent>>
  /\ UNCHANGED <<pingInHand, pingForkLock, pingMainPc, pingForks, pingOutbox,
                 childCrashed, answered>>
  /\ UNCHANGED notPing

\* ForwardPingResponse, JSControl.cpp:187-204.
MiddlemanPingResponse ==
  /\ pingOutbox # <<>>
  /\ answered' = answered \cup {Head(pingOutbox).mId}
  /\ pingOutbox' = Tail(pingOutbox)
  /\ UNCHANGED <<pingInbox, pingInHand, pingForkLock, pingMainPc,
                 pingForks, childCrashed, nextPingId, missedIntervals, classifiedHung,
                 crashSent>>
  /\ UNCHANGED notPing

\* The channel thread takes the next message and enters
\* ChannelMessageHandler: a Crash message is handled before the fork lock
\* is taken (part_005:132-150), with a Ping the thread goes on to
\* AutoReadSpinLock (part_005:152).
PingChannelThreadReceive ==
  /\ ~childCrashed
  /\ pingInHand = NoPing
  /\ pingInbox # <<>>
  /\ pingInbox' = Tail(pingInbox)
  /\ IF Head(pingInbox).mType = "Crash"
     THEN /\ childCrashed' = TRUE
          /\ UNCHANGED pingInHand
     ELSE /\ pingInHand' = Head(pingInbox)
          /\ UNCHANGED childCrashed
  /\ UNCHANGED <<pingForkLock, pingMainPc, pingForks, pingOutbox, nextPingId, answered,
                 missedIntervals, classifiedHung, crashSent>>
  /\ UNCHANGED notPing

\* The read lock is obtained and the Ping is answered (part_005:174-187).
PingChannelMessageHandler ==
  /\ ~childCrashed
  /\ pingInHand # NoPing
  /\ ReadLockReady(pingForkLock)
  /\ pingOutbox' = Append(pingOutbox, [mType |-> "PingResponse",
                                       mId |-> pingInHand.mId])
  /\ pingInHand' = NoPing
  /\ UNCHANGED <<pingInbox, pingForkLock, pingMainPc, pingForks, childCrashed,
                 nextPingId, answered, missedIntervals, classifiedHung,
                 crashSent>>
  /\ UNCHANGED notPing

\* The main thread enters PerformFork and holds the fork lock for writing
\* (part_005:557) ...
PingPerformForkWriteLock ==
  /\ ~childCrashed
  /\ pingMainPc = "running"
  /\ pingForks < MaxPingForks
  /\ WriteLockReady(pingForkLock)
  /\ pingForkLock' = WriteLocked
  /\ pingMainPc' = "forking"
  /\ pingForks' = pingForks + 1
  /\ UNCHANGED <<pingInbox, pingInHand, pingOutbox, childCrashed, nextPingId,
                 answered, missedIntervals, classifiedHung, crashSent>>
  /\ UNCHANGED notPing

\* ... and leaves it (part_005:562), unless it is stuck there.
PingPerformForkWriteUnlock ==
  /\ ~childCrashed
  /\ pingMainPc = "forking"
  /\ pingForkLock' = WriteUnlock(pingForkLock)
  /\ pingMainPc' = "running"
  /\ UNCHANGED <<pingInbox, pingInHand, pingForks, pingOutbox, childCrashed, nextPingId,
                 answered, missedIntervals, classifiedHung, crashSent>>
  /\ UNCHANGED notPing

PingStart ==
  /\ pingInbox = <<>>
  /\ pingInHand = NoPing
  /\ pingForkLock = 0
  /\ pingMainPc = "running"
  /\ pingForks = 0
  /\ pingOutbox = <<>>
  /\ childCrashed = FALSE
  /\ nextPingId = 1
  /\ answered = {}
  /\ missedIntervals = 0
  /\ classifiedHung = FALSE
  /\ crashSent = FALSE

NextPing ==
  \/ MiddlemanInterval
  \/ MiddlemanPingResponse
  \/ PingChannelThreadReceive
  \/ PingChannelMessageHandler
  \/ PingPerformForkWriteLock
  \/ PingPerformForkWriteUnlock

(***************************************************************************)
(* Checkpoints.  The middleman asks a recording process for a checkpoint   *)
(* with a CreateCheckpoint message (JSControl.cpp:437-458).  The channel    *)
(* thread of the process writes one byte to a pipe (part_005:163-173), the  *)
(* recorded listener thread reads it and dispatches CreateCheckpoint to the *)
(* main thread (part_005:256-268).  The main thread also creates a          *)
(* checkpoint by itself once it is initialized and, from then on, at the    *)
(* top of its event loop (ProcessRecordReplay.cpp:1326-1341).  The index of *)
(* a checkpoint is issued by NewCheckpoint, which is not part of the        *)
(* sources at hand: "assigns the next checkpoint index (itself an agreed,   *)
(* recorded value)".                                                        *)
(***************************************************************************)
\* Requests the middleman sends.
MaxRequests == 2
\* Plain events the main thread records.
MaxMainEvents == 2
\* Checkpoints the main thread creates by itself.
MaxOwnCheckpoints == 2

ValueEntry == [kind |-> "value", index |-> 0]
CheckpointEntry(aIndex) == [kind |-> "checkpoint", index |-> aIndex]

NewCheckpoint_SameIndex(aLast) == aLast

NewCheckpoint(aLast) == aLast + 1

\* js::IsInitialized (JSControl.cpp:95-97).
IsInitialized == gModule

\* The effect of CreateCheckpoint and of MaybeCreateCheckpoint past its test
\* on the recording process: the module is initialized
\* (ProcessRecordReplay.cpp:1327, JSControl.cpp:591), the next index is
\* issued and recorded at the current position of the main thread's stream.
RecordingNewCheckpoint ==
  LET index == NewCheckpoint(gLastCheckpoint) IN
  /\ gLastCheckpoint' = index
  /\ ckptLog' = Append(ckptLog, <<index, Len(mainStream)>>)
  /\ mainStream' = Append(mainStream, CheckpointEntry(index))
  /\ gModule' = TRUE
  /\ gHasCheckpoint' = TRUE

\* Middleman_CreateCheckpointInRecording (JSControl.cpp:437-458).
Middleman_CreateCheckpointInRecording ==
  /\ ckptPhase = "recording"
  /\ nextRequest <= MaxRequests
  /\ ckptChannel' = Append(ckptChannel, nextRequest)
  /\ nextRequest' = nextRequest + 1
  /\ UNCHANGED <<ckptPhase, ckptReceived, ckptPipe, ckptRunnables, gModule,
                 gHasCheckpoint, gLastCheckpoint, mainStream, mainEvents,
                 ckptLog, ckptCreatedFor, ckptReplayPos, ckptReplayLog,
                 ckptReplayFatal>>
  /\ UNCHANGED notCkpt

\* ChannelMessageHandler, case CreateCheckpoint (part_005:163-173): the
\* request is passed on only when js::IsInitialized().
CheckpointChannelMessageHandler ==
  /\ ckptPhase = "recording"
  /\ ckptChannel # <<>>
  /\ ckptChannel' = Tail(ckptChannel)
  /\ ckptReceived' = ckptReceived \cup {Head(ckptChannel)}
  /\ ckptPipe' = IF IsInitialized THEN Append(ckptPipe, Head(ckptChannel))
                                  ELSE ckptPipe
  /\ UNCHANGED <<ckptPhase, nextRequest, ckptRunnables, gModule,
                 gHasCheckpoint, gLastCheckpoint, mainStream, mainEvents,
                 ckptLog, ckptCreatedFor, ckptReplayPos, ckptReplayLog,
                 ckptReplayFatal>>
  /\ UNCHANGED notCkpt

\* ListenForCheckpointThreadMain (part_005:256-268), one turn of the loop
\* with a byte to read.
ListenForCheckpointThreadMain ==
  /\ ckptPhase = "recording"
  /\ ckptPipe # <<>>
  /\ ckptPipe' = Tail(ckptPipe)
  /\ ckptRunnables' = Append(ckptRunnables, Head(ckptPipe))
  /\ UNCHANGED <<ckptPhase, nextRequest, ckptChannel, ckptReceived, gModule,
                 gHasCheckpoint, gLastCheckpoint, mainStream, mainEvents,
                 ckptLog, ckptCreatedFor, ckptReplayPos, ckptReplayLog,
                 ckptReplayFatal>>
  /\ UNCHANGED notCkpt

\* CreateCheckpoint (ProcessRecordReplay.cpp:1326-1332) run by the main
\* thread as the runnable the listener thread dispatched.
CreateCheckpointRunnable ==
  /\ ckptPhase = "recording"
  /\ ckptRunnables # <<>>
  /\ RecordingNewCheckpoint
  /\ ckptRunnables' = Tail(ckptRunnables)
  /\ ckptCreatedFor' = ckptCreatedFor \cup {Head(ckptRunnables)}
  /\ UNCHANGED <<ckptPhase, nextRequest, ckptChannel, ckptReceived, ckptPipe,
                 mainEvents, ckptReplayPos, ckptReplayLog, ckptReplayFatal>>
  /\ UNCHANGED notCkpt

\* CreateCheckpoint (ProcessRecordReplay.cpp:1326-1332) called by the main
\* thread itself, the first time when the process is fully initialized.
CreateCheckpoint ==
  /\ ckptPhase = "recording"
  /\ ~gHasCheckpoint
  /\ RecordingNewCheckpoint
  /\ UNCHANGED <<ckptPhase, nextRequest, ckptChannel, ckptReceived, ckptPipe,
                 ckptRunnables, mainEvents, ckptCreatedFor, ckptReplayPos,
                 ckptReplayLog, ckptReplayFatal>>
  /\ UNCHANGED notCkpt

\* The test of MaybeCreateCheckpoint always passing.
HasCheckpoint_Always(aHasCheckpoint) == TRUE

\* HasCheckpoint (ProcessRecordReplay.cpp:1322-1324).
HasCheckpoint(aHasCheckpoint) == aHasCheckpoint

\* MaybeCreateCheckpoint (ProcessRecordReplay.cpp:1334-1341), top of the
\* event loop of the main thread: past its test it issues and records the
\* next index and leaves gHasCheckpoint alone.
MaybeCreateCheckpoint ==
  /\ ckptPhase = "recording"
  /\ HasCheckpoint(gHasCheckpoint)
  /\ Len(ckptLog) - Cardinality(ckptCreatedFor) < MaxOwnCheckpoints
  /\ LET index == NewCheckpoint(gLastCheckpoint)
     IN /\ gLastCheckpoint' = index
        /\ ckptLog' = Append(ckptLog, <<index, Len(mainStream)>>)
        /\ mainStream' = Append(mainStream, CheckpointEntry(index))
  /\ UNCHANGED <<ckptPhase, nextRequest, ckptChannel, ckptReceived, ckptPipe,
                 ckptRunnables, gModule, gHasCheckpoint, mainEvents,
                 ckptCreatedFor, ckptReplayPos, ckptReplayLog,
                 ckptReplayFatal>>
  /\ UNCHANGED notCkpt

\* The main thread records a plain event in its stream.
CheckpointMainEvent ==
  /\ ckptPhase = "recording"
  /\ mainEvents < MaxMainEvents
  /\ mainEvents' = mainEvents + 1
  /\ mainStream' = Append(mainStream, ValueEntry)
  /\ UNCHANGED <<ckptPhase, nextRequest, ckptChannel, ckptReceived, ckptPipe,
                 ckptRunnables, gModule, gHasCheckpoint, gLastCheckpoint,
                 ckptLog, ckptCreatedFor, ckptReplayPos, ckptReplayLog,
                 ckptReplayFatal>>
  /\ UNCHANGED notCkpt

\* The recording is finished with no request under way and handed to a
\* fresh process that replays it.
CheckpointStartReplaying ==
  /\ ckptPhase = "recording"
  /\ ckptChannel = <<>> /\ ckptPipe = <<>> /\ ckptRunnables = <<>>
  /\ ckptPhase' = "replaying"
  /\ gLastCheckpoint' = 0
  /\ gHasCheckpoint' = FALSE
  /\ gModule' = FALSE
  /\ UNCHANGED <<nextRequest, ckptChannel, ckptReceived, ckptPipe,
                 ckptRunnables, mainStream, mainEvents, ckptLog,
                 ckptCreatedFor, ckptReplayPos, ckptReplayLog,
                 ckptReplayFatal>>
  /\ UNCHANGED notCkpt

\* The main thread of the replaying process reaches the next entry of its
\* stream.  At a checkpoint it runs CreateCheckpoint or MaybeCreateCheckpoint
\* as the recording process did: the index is issued anew and compared with
\* the recorded one.
ReplayingMainThread ==
  /\ ckptPhase = "replaying"
  /\ ~ckptReplayFatal
  /\ ckptReplayPos < Len(mainStream)
  /\ LET entry == mainStream[ckptReplayPos + 1]
         index == NewCheckpoint(gLastCheckpoint) IN
     IF entry.kind = "value"
       THEN /\ ckptReplayPos' = ckptReplayPos + 1
            /\ UNCHANGED <<gLastCheckpoint, gModule, gHasCheckpoint,
                           ckptReplayLog, ckptReplayFatal>>
       ELSE /\ gLastCheckpoint' = index
            /\ gModule' = TRUE
            /\ gHasCheckpoint' = TRUE
            /\ ckptReplayLog' = Append(ckptReplayLog, <<index, ckptReplayPos>>)
            /\ ckptReplayFatal' = (entry.index # index)
            /\ ckptReplayPos' = ckptReplayPos + 1
  /\ UNCHANGED <<ckptPhase, nextRequest, ckptChannel, ckptReceived, ckptPipe,
                 ckptRunnables, mainStream, mainEvents, ckptLog,
                 ckptCreatedFor>>
  /\ UNCHANGED notCkpt

CkptStart ==
  /\ ckptPhase = "recording"
  /\ nextRequest = 1
  /\ ckptChannel = <<>>
  /\ ckptReceived = {}
  /\ ckptPipe = <<>>
  /\ ckptRunnables = <<>>
  /\ gModule = FALSE
  /\ gHasCheckpoint = FALSE
  /\ gLastCheckpoint = 0
  /\ mainStream = <<>>
  /\ mainEvents = 0
  /\ ckptLog = <<>>
  /\ ckptCreatedFor = {}
  /\ ckptReplayPos = 0
  /\ ckptReplayLog = <<>>
  /\ ckptReplayFatal = FALSE

NextCkpt ==
  \/ Middleman_CreateCheckpointInRecording
  \/ CheckpointChannelMessageHandler
  \/ ListenForCheckpointThreadMain
  \/ CreateCheckpointRunnable
  \/ CreateCheckpoint
  \/ MaybeCreateCheckpoint
  \/ CheckpointMainEvent
  \/ CheckpointStartReplaying
  \/ ReplayingMainThread

(***************************************************************************)
(* Thread modes (RecordReplay.h:91-119, 143-154, 391-406).  A thread has a *)
(* pass-through and a disallow nesting counter and a diverged flag.  The   *)
(* counters and the flag live behind the Internal functions                *)
(* (ProcessRecordReplay.cpp:1164-1190), which are not part of the sources  *)
(* at hand: "increment/decrement a per-thread counter; active iff counter  *)
(* > 0".  What an event does in each mode follows the comments of          *)
(* RecordReplay.h:91-94 and 107-108 and the use the sources make of the    *)
(* modes in StaticMutex.h:88-103: inside a disallow region a lock taken    *)
(* under AutoPassThroughThreadEvents is unordered.                         *)
(***************************************************************************)
\* Scopes one thread has open at a time.
MaxNesting == 2
\* Events and lock calls attempted by all threads.
MaxModeCalls == 2

BeginCount(aCount) == aCount + 1

EndCount_Clear(aCount) == 0

EndCount(aCount) == aCount - 1

\* AreThreadEventsPassedThrough and AreThreadEventsDisallowed
\* (RecordReplay.h:393-394, 397).
AreThreadEventsPassedThrough(t) == mPassThroughEvents[t] > 0
AreThreadEventsDisallowed(t) == mDisallowEvents[t] > 0

\* HasDivergedFromRecording (RecordReplay.h:405).
HasDivergedFromRecording(t) == mDivergedFromRecording[t]

DivergedFlag_Toggle(aDiverged) == ~aDiverged

\* The flag after a call of DivergeFromRecording.
DivergedFlag(aDiverged) == TRUE

\* What becomes of an event a thread attempts: passed through events are
\* performed without the recording; otherwise an event in a disallow region
\* crashes the process (RecordReplay.h:107-108), an event of a diverged
\* thread is an unhandled divergence (part_005:705-716), and any other
\* event is recorded or replayed.
EventOutcome(passedThrough, disallowed, diverged) ==
  IF passedThrough THEN "passedThrough"
  ELSE IF disallowed THEN "fatal"
  ELSE IF diverged THEN "divergence"
  ELSE "recorded"

ExitAfter(outcome) ==
  IF outcome = "fatal" THEN "crash"
  ELSE IF outcome = "divergence" THEN "divergence"
  ELSE "none"

ModeIsTurn(t) ==
  /\ modeLockCursor < Len(modeLockStream)
  /\ modeLockStream[modeLockCursor + 1] = t

ModeCall(t, op, passedThrough, outcome) ==
  [thread |-> t, op |-> op, pt |-> passedThrough,
   dis |-> AreThreadEventsDisallowed(t), outcome |-> outcome,
   turn |-> ModeIsTurn(t), streamBefore |-> modeLockStream,
   cursorBefore |-> modeLockCursor]

NoModeCall ==
  [thread |-> 0, op |-> "none", pt |-> FALSE, dis |-> FALSE,
   outcome |-> "none", turn |-> FALSE, streamBefore |-> <<>>,
   cursorBefore |-> 0]

\* BeginPassThroughThreadEvents (RecordReplay.h:95, 391).
BeginPassThroughThreadEvents(t) ==
  /\ modeExit = "none"
  /\ Len(modeScopes[t]) < MaxNesting
  /\ modeScopes' = [modeScopes EXCEPT ![t] = Append(@, "passThrough")]
  /\ mPassThroughEvents' = [mPassThroughEvents EXCEPT ![t] = BeginCount(@)]
  /\ UNCHANGED <<modeKind, mDisallowEvents, mDivergedFromRecording,
                 modeLockOwner, modeLockStream, modeLockCursor, modeCalls,
                 modeLast, modeExit>>
  /\ UNCHANGED notMode

\* EndPassThroughThreadEvents (RecordReplay.h:96, 392), at the end of the
\* innermost open scope (~AutoPassThroughThreadEvents, RecordReplay.h:104).
EndPassThroughThreadEvents(t) ==
  /\ modeExit = "none"
  /\ modeScopes[t] # <<>>
  /\ modeScopes[t][Len(modeScopes[t])] = "passThrough"
  /\ modeScopes' = [modeScopes EXCEPT ![t] = SubSeq(@, 1, Len(@) - 1)]
  /\ mPassThroughEvents' = [mPassThroughEvents EXCEPT ![t] = EndCount(@)]
  /\ UNCHANGED <<modeKind, mDisallowEvents, mDivergedFromRecording,
                 modeLockOwner, modeLockStream, modeLockCursor, modeCalls,
                 modeLast, modeExit>>
  /\ UNCHANGED notMode

\* BeginDisallowThreadEvents (RecordReplay.h:110, 395).
BeginDisallowThreadEvents(t) ==
  /\ modeExit = "none"
  /\ Len(modeScopes[t]) < MaxNesting
  /\ modeScopes' = [modeScopes EXCEPT ![t] = Append(@, "disallow")]
  /\ mDisallowEvents' = [mDisallowEvents EXCEPT ![t] = BeginCount(@)]
  /\ UNCHANGED <<modeKind, mPassThroughEvents, mDivergedFromRecording,
                 modeLockOwner, modeLockStream, modeLockCursor, modeCalls,
                 modeLast, modeExit>>
  /\ UNCHANGED notMode

\* EndDisallowThreadEvents (RecordReplay.h:111, 396), at the end of the
\* innermost open scope (~AutoDisallowThreadEvents, RecordReplay.h:119).
EndDisallowThreadEvents(t) ==
  /\ modeExit = "none"
  /\ modeScopes[t] # <<>>
  /\ modeScopes[t][Len(modeScopes[t])] = "disallow"
  /\ modeScopes' = [modeScopes EXCEPT ![t] = SubSeq(@, 1, Len(@) - 1)]
  /\ mDisallowEvents' = [mDisallowEvents EXCEPT ![t] = EndCount(@)]
  /\ UNCHANGED <<modeKind, mPassThroughEvents, mDivergedFromRecording,
                 modeLockOwner, modeLockStream, modeLockCursor, modeCalls,
                 modeLast, modeExit>>
  /\ UNCHANGED notMode

\* DivergeFromRecording, called from the control script of a replaying
\* process (JSControl.cpp:854-860) on the main thread.
DivergeFromRecording ==
  /\ modeExit = "none"
  /\ modeKind = "Replaying"
  /\ mDivergedFromRecording' =
       [mDivergedFromRecording EXCEPT ![MainThreadId] = DivergedFlag(@)]
  /\ UNCHANGED <<modeKind, modeScopes, mPassThroughEvents, mDisallowEvents,
                 modeLockOwner, modeLockStream, modeLockCursor, modeCalls,
                 modeLast, modeExit>>
  /\ UNCHANGED notMode

\* A thread attempts an event, e.g. calls RecordReplayValue.
ModeThreadEvent(t) ==
  /\ modeExit = "none"
  /\ modeCalls < MaxModeCalls
  /\ LET outcome == EventOutcome(AreThreadEventsPassedThrough(t),
                                 AreThreadEventsDisallowed(t),
                                 HasDivergedFromRecording(t)) IN
     /\ modeLast' = ModeCall(t, "event", AreThreadEventsPassedThrough(t),
                             outcome)
     /\ modeExit' = ExitAfter(outcome)
  /\ modeCalls' = modeCalls + 1
  /\ UNCHANGED <<modeKind, modeScopes, mPassThroughEvents, mDisallowEvents,
                 mDivergedFromRecording, modeLockOwner, modeLockStream,
                 modeLockCursor>>
  /\ UNCHANGED notMode

\* The ordered lock of an ordered static mutex, taken by a thread whose
\* events are passed through or not: an ordered acquire is an event of the
\* thread, appended to the lock stream while recording and waited for while
\* replaying.
ModeInternalOrderedLock(t, op, passedThrough) ==
  LET outcome == EventOutcome(passedThrough, AreThreadEventsDisallowed(t),
                              HasDivergedFromRecording(t)) IN
  /\ modeExit = "none"
  /\ modeCalls < MaxModeCalls
  /\ outcome \in {"recorded", "passedThrough"} => modeLockOwner = NoThread
  /\ (outcome = "recorded" /\ modeKind = "Replaying") => ModeIsTurn(t)
  /\ modeLockOwner' =
       IF outcome \in {"recorded", "passedThrough"} THEN t ELSE modeLockOwner
  /\ modeLockStream' =
       IF outcome = "recorded" /\ modeKind = "Recording"
       THEN Append(modeLockStream, t) ELSE modeLockStream
  /\ modeLockCursor' =
       IF outcome = "recorded" /\ modeKind = "Replaying"
       THEN modeLockCursor + 1 ELSE modeLockCursor
  /\ modeLast' = ModeCall(t, op, passedThrough, outcome)
  /\ modeExit' = ExitAfter(outcome)
  /\ modeCalls' = modeCalls + 1
  /\ UNCHANGED <<modeKind, modeScopes, mPassThroughEvents, mDisallowEvents,
                 mDivergedFromRecording>>
  /\ UNCHANGED notMode

\* OrderedStaticMutexAutoLock (StaticMutex.h:85), in the mode of the thread.
OrderedStaticMutexAutoLock(t) ==
  /\ modeExit = "none"
  /\ ModeInternalOrderedLock(t, "lock", AreThreadEventsPassedThrough(t))

OrderedStaticMutexAutoLockMaybeEventsDisallowed_NoPassThrough(t) ==
  ModeInternalOrderedLock(t, "lockMaybeEventsDisallowed",
                          AreThreadEventsPassedThrough(t))

\* OrderedStaticMutexAutoLockMaybeEventsDisallowed (StaticMutex.h:88-103):
\* when the thread's events are disallowed the mutex is locked inside an
\* AutoPassThroughThreadEvents scope, which ends with the constructor.
OrderedStaticMutexAutoLockMaybeEventsDisallowed(t) ==
  IF AreThreadEventsDisallowed(t)
  THEN ModeInternalOrderedLock(t, "lockMaybeEventsDisallowed",
                               BeginCount(mPassThroughEvents[t]) > 0)
  ELSE ModeInternalOrderedLock(t, "lockMaybeEventsDisallowed",
                               AreThreadEventsPassedThrough(t))

\* The destructor of the lock object.
ModeOrderedUnlock(t) ==
  /\ modeExit = "none"
  /\ modeLockOwner = t
  /\ modeLockOwner' = NoThread
  /\ UNCHANGED <<modeKind, modeScopes, mPassThroughEvents, mDisallowEvents,
                 mDivergedFromRecording, modeLockStream, modeLockCursor,
                 modeCalls, modeLast, modeExit>>
  /\ UNCHANGED notMode

\* The recording process ends with every scope closed and the mutex free; a
\* fresh process replays its recording.
ModeStartReplaying ==
  /\ modeExit = "none"
  /\ modeKind = "Recording"
  /\ \A t \in Threads : modeScopes[t] = <<>>
  /\ modeLockOwner = NoThread
  /\ modeKind' = "Replaying"
  /\ modeLockCursor' = 0
  /\ modeCalls' = 0
  /\ modeLast' = NoModeCall
  /\ UNCHANGED <<modeScopes, mPassThroughEvents, mDisallowEvents,
                 mDivergedFromRecording, modeLockOwner, modeLockStream,
                 modeExit>>
  /\ UNCHANGED notMode

ModeStart ==
  /\ modeKind = "Recording"
  /\ modeScopes = [t \in Threads |-> <<>>]
  /\ mPassThroughEvents = [t \in Threads |-> 0]
  /\ mDisallowEvents = [t \in Threads |-> 0]
  /\ mDivergedFromRecording = [t \in Threads |-> FALSE]
  /\ modeLockOwner = NoThread
  /\ modeLockStream = <<>>
  /\ modeLockCursor = 0
  /\ modeCalls = 0
  /\ modeLast = NoModeCall
  /\ modeExit = "none"

NextMode ==
  \/ \E t \in Threads : BeginPassThroughThreadEvents(t)
  \/ \E t \in Threads : EndPassThroughThreadEvents(t)
  \/ \E t \in Threads : BeginDisallowThreadEvents(t)
  \/ \E t \in Threads : EndDisallowThreadEvents(t)
  \/ DivergeFromRecording
  \/ \E t \in Threads : ModeThreadEvent(t)
  \/ \E t \in Threads : OrderedStaticMutexAutoLock(t)
  \/ \E t \in Threads : OrderedStaticMutexAutoLockMaybeEventsDisallowed(t)
  \/ \E t \in Threads : ModeOrderedUnlock(t)
  \/ ModeStartReplaying

(***************************************************************************)
(* RecordReplayBytes(aWhy, aData, aSize) (RecordReplay.h:136, 400-401;     *)
(* ProcessRecordReplay.cpp:247-258) on a buffer that may be longer than    *)
(* aSize: what the call writes to the stream and what it leaves in the     *)
(* buffer.                                                                 *)
(***************************************************************************)
\* Longest buffer, and calls made by each of the two processes.
MaxBuffer == 2
MaxBufferCalls == 2

Buffers == UNION { [1..n -> Bytes] : n \in 0..MaxBuffer }

BufferCall(aData, aSize, passThrough, result, completed) ==
  [made |-> TRUE, kind |-> bufKind, arg |-> aData, size |-> aSize,
   pt |-> passThrough, result |-> result, completed |-> completed,
   eventsBefore |-> bufEvents, posBefore |-> bufPos]

NoBufferCall ==
  [made |-> FALSE, kind |-> "none", arg |-> <<>>, size |-> 0, pt |-> FALSE,
   result |-> <<>>, completed |-> FALSE, eventsBefore |-> <<>>,
   posBefore |-> 0]

\* The thread calls RecordReplayBytes(aWhy, aData, aSize).
BufferRecordReplayBytes(aData, aSize, passThrough) ==
  /\ bufFatal = "none"
  /\ bufCalls < MaxBufferCalls
  /\ aSize <= Len(aData)
  /\ LET r == WrapRecordReplayBytes(Stream(bufEvents, bufPos, bufFatal),
                                    bufKind, passThrough, aData, aSize)
     IN /\ bufEvents' = r.s.events
        /\ bufPos' = r.s.pos
        /\ bufFatal' = r.s.fatal
        /\ bufLast' = BufferCall(aData, aSize, passThrough, r.v,
                                 r.s.fatal = "none")
  /\ bufCalls' = bufCalls + 1
  /\ UNCHANGED bufKind
  /\ UNCHANGED notBuf

\* The recording is finished and a replaying process is started on it.
BufferStartReplaying ==
  /\ bufKind = "Recording"
  /\ bufKind' = "Replaying"
  /\ bufPos' = 0
  /\ bufCalls' = 0
  /\ bufLast' = NoBufferCall
  /\ UNCHANGED <<bufEvents, bufFatal>>
  /\ UNCHANGED notBuf

BufStart ==
  /\ bufKind = "Recording"
  /\ bufEvents = <<>>
  /\ bufPos = 0
  /\ bufFatal = "none"
  /\ bufCalls = 0
  /\ bufLast = NoBufferCall

NextBuf ==
  \/ \E aData \in Buffers, aSize \in 0..MaxBuffer, pt \in BOOLEAN :
       BufferRecordReplayBytes(aData, aSize, pt)
  \/ BufferStartReplaying

(***************************************************************************)
(* AddPendingRecordingData (part_005:760-799) among the recorded threads   *)
(* of the process.  Thread::WaitForIdleThreads, Thread::ResumeIdleThreads  *)
(* and NeedRespawnThreads are not part of the sources at hand:             *)
(* WaitForIdleThreads "blocks the calling (main) thread until all recorded *)
(* threads have reached a safe idle point", ResumeIdleThreads "allows them *)
(* to resume"; a process that needs to respawn its threads has none.       *)
(***************************************************************************)
\* Length of the recording the process receives.
MaxIdleLen == 2

\* The recorded threads other than the main thread.
IdleThreadIds == {2, 3}

ShouldWaitForIdleThreads_Never(aNeedRespawnThreads) == FALSE

\* The test of part_005:762 and part_005:796.
ShouldWaitForIdleThreads(aNeedRespawnThreads) == ~aNeedRespawnThreads

AllThreadsIdle == \A t \in IdleThreadIds : idleThreads[t] = "idle"

\* The channel thread appends received data to gRecordingContents
\* (part_005:719-732).
IdleNewRecordingData ==
  /\ ~idleCrashed
  /\ idleContents < MaxIdleLen
  /\ idleContents' = idleContents + 1
  /\ UNCHANGED <<idlePc, idleRequireMore, idleThreads, gThreadsShouldIdle,
                 gNeedRespawnThreads, idleRecording, idleCrashed>>
  /\ UNCHANGED idlePos
  /\ UNCHANGED notIdle

\* part_005:760-764: the call up to the return of WaitForIdleThreads, which
\* first asks the threads to go idle.
AddPendingRecordingDataBegin(aRequireMore) ==
  /\ ~idleCrashed
  /\ idlePc = "idle"
  /\ idleRequireMore' = aRequireMore
  /\ IF ShouldWaitForIdleThreads(gNeedRespawnThreads)
     THEN /\ gThreadsShouldIdle' = TRUE
          /\ idlePc' = "WaitForIdleThreads"
     ELSE /\ idlePc' = "NewContents"
          /\ UNCHANGED gThreadsShouldIdle
  /\ UNCHANGED <<idleThreads, gNeedRespawnThreads, idleContents,
                 idleRecording, idleCrashed>>
  /\ UNCHANGED idlePos
  /\ UNCHANGED notIdle

\* Thread::WaitForIdleThreads returns: every recorded thread is idle.
WaitForIdleThreadsReturn ==
  /\ ~idleCrashed
  /\ idlePc = "WaitForIdleThreads"
  /\ AllThreadsIdle
  /\ idlePc' = "NewContents"
  /\ UNCHANGED <<idleRequireMore, idleThreads, gThreadsShouldIdle,
                 gNeedRespawnThreads, idleContents, idleRecording,
                 idleCrashed>>
  /\ UNCHANGED idlePos
  /\ UNCHANGED notIdle

\* AddPendingRecordingData without the crash of part_005:770-781.
AddPendingRecordingDataNewContents_NoCrash ==
  /\ ~idleCrashed
  /\ idlePc = "NewContents"
  /\ IF idleContents = idleRecording
     THEN UNCHANGED <<idleCrashed, idleRecording>>
     ELSE /\ idleRecording' = idleContents
          /\ UNCHANGED idleCrashed
  /\ idlePc' = "ResumeIdleThreads"
  /\ UNCHANGED <<idleRequireMore, idleThreads, gThreadsShouldIdle,
                 gNeedRespawnThreads, idleContents>>
  /\ UNCHANGED idlePos
  /\ UNCHANGED notIdle

\* part_005:766-789, under gMonitor: crash when more data is required and
\* none is there, otherwise hand the new contents to the recording.
AddPendingRecordingDataNewContents ==
  /\ ~idleCrashed
  /\ idlePc = "NewContents"
  /\ IF idleContents = idleRecording
     THEN /\ idleCrashed' = idleRequireMore
          /\ UNCHANGED idleRecording
     ELSE /\ idleRecording' = idleContents
          /\ UNCHANGED idleCrashed
  /\ idlePc' = "ResumeIdleThreads"
  /\ UNCHANGED <<idleRequireMore, idleThreads, gThreadsShouldIdle,
                 gNeedRespawnThreads, idleContents>>
  /\ UNCHANGED idlePos
  /\ UNCHANGED notIdle

\* part_005:791-799: the lock streams are updated and the idle threads
\* resumed; the call returns.
AddPendingRecordingDataEnd ==
  /\ ~idleCrashed
  /\ idlePc = "ResumeIdleThreads"
  /\ IF ShouldWaitForIdleThreads(gNeedRespawnThreads)
     THEN /\ gThreadsShouldIdle' = FALSE
          /\ idleThreads' = [t \in IdleThreadIds |->
                               IF idleThreads[t] = "idle" THEN "running"
                               ELSE idleThreads[t]]
     ELSE UNCHANGED <<gThreadsShouldIdle, idleThreads>>
  /\ idlePc' = "idle"
  /\ UNCHANGED <<idleRequireMore, gNeedRespawnThreads, idleContents,
                 idleRecording, idleCrashed>>
  /\ UNCHANGED idlePos
  /\ UNCHANGED notIdle

\* A recorded thread starts to read the next byte of its stream, which is
\* within the recording.
IdleThreadReadBegin(t) ==
  /\ ~idleCrashed
  /\ idleThreads[t] = "running"
  /\ idlePos[t] < idleRecording
  /\ idleThreads' = [idleThreads EXCEPT ![t] = "reading"]
  /\ UNCHANGED <<idlePc, idleRequireMore, gThreadsShouldIdle,
                 gNeedRespawnThreads, idleContents, idleRecording,
                 idleCrashed>>
  /\ UNCHANGED idlePos
  /\ UNCHANGED notIdle

\* The read is done and the thread's position moves on.
IdleThreadReadEnd(t) ==
  /\ ~idleCrashed
  /\ idleThreads[t] = "reading"
  /\ idleThreads' = [idleThreads EXCEPT ![t] = "running"]
  /\ idlePos' = [idlePos EXCEPT ![t] = @ + 1]
  /\ UNCHANGED <<idlePc, idleRequireMore, gThreadsShouldIdle,
                 gNeedRespawnThreads, idleContents, idleRecording,
                 idleCrashed>>
  /\ UNCHANGED notIdle

\* A recorded thread outside a read reaches a point where it can idle, and
\* idles because the main thread asked for it.
IdleThreadIdle(t) ==
  /\ ~idleCrashed
  /\ idleThreads[t] = "running"
  /\ gThreadsShouldIdle
  /\ idleThreads' = [idleThreads EXCEPT ![t] = "idle"]
  /\ UNCHANGED <<idlePc, idleRequireMore, gThreadsShouldIdle,
                 gNeedRespawnThreads, idleContents, idleRecording,
                 idleCrashed>>
  /\ UNCHANGED idlePos
  /\ UNCHANGED notIdle

\* The main thread of a fresh fork respawns the recorded threads.
IdleRespawnThreads ==
  /\ ~idleCrashed
  /\ idlePc = "idle"
  /\ gNeedRespawnThreads
  /\ gNeedRespawnThreads' = FALSE
  /\ idleThreads' = [t \in IdleThreadIds |-> "running"]
  /\ UNCHANGED <<idlePc, idleRequireMore, gThreadsShouldIdle, idleContents,
                 idleRecording, idleCrashed>>
  /\ UNCHANGED idlePos
  /\ UNCHANGED notIdle

\* A fresh fork: the recorded threads are yet to be respawned.
IdleStart ==
  /\ idlePc = "idle"
  /\ idleRequireMore = FALSE
  /\ idleThreads = [t \in IdleThreadIds |-> "unspawned"]
  /\ gThreadsShouldIdle = FALSE
  /\ gNeedRespawnThreads = TRUE
  /\ idleContents = 0
  /\ idleRecording = 0
  /\ idlePos = [t \in IdleThreadIds |-> 0]
  /\ idleCrashed = FALSE

NextIdle ==
  \/ IdleNewRecordingData
  \/ \E aRequireMore \in BOOLEAN : AddPendingRecordingDataBegin(aRequireMore)
  \/ WaitForIdleThreadsReturn
  \/ AddPendingRecordingDataNewContents
  \/ AddPendingRecordingDataEnd
  \/ \E t \in IdleThreadIds : IdleThreadReadBegin(t)
  \/ \E t \in IdleThreadIds : IdleThreadReadEnd(t)
  \/ \E t \in IdleThreadIds : IdleThreadIdle(t)
  \/ IdleRespawnThreads

(***************************************************************************)
(* Unhandled divergences (part_005:657-676, 699-714, 136-141).             *)
(* ReportUnhandledDivergence runs on the thread that diverged; the         *)
(* Terminate message is handled on the channel thread, which sets          *)
(* gExitCalled and then leaves the process with _exit(0).                  *)
(***************************************************************************)
MaxDivSets == 2

\* ReportFatalError returns to its caller when gExitCalled is set and
\* crashes the process otherwise: TRUE when the call crashes.
ReportFatalError(aExitCalled) == ~aExitCalled

DivRunning == divExit = "none"

SetUnhandledDivergenceAllowed(aAllowed) ==
  /\ DivRunning
  /\ divSets < MaxDivSets
  /\ gUnhandledDivergenceAllowed' = aAllowed
  /\ divSets' = divSets + 1
  /\ UNCHANGED <<gExitCalled, divTerminate, divPc, divNotAllowed, divSent,
                 divExit>>
  /\ UNCHANGED notDiv

\* part_005:705-708: the test and the call of ReportFatalError.
ReportUnhandledDivergence(t) ==
  /\ DivRunning
  /\ divPc[t] = "run"
  /\ LET notAllowed == t # MainThreadId \/ ~gUnhandledDivergenceAllowed
     IN /\ divNotAllowed' = [divNotAllowed EXCEPT ![t] = notAllowed]
        /\ IF notAllowed /\ ReportFatalError(gExitCalled)
             THEN /\ divExit' = "crashed"
                  /\ UNCHANGED divPc
             ELSE /\ divPc' = [divPc EXCEPT ![t] = "send"]
                  /\ UNCHANGED divExit
  /\ UNCHANGED <<gUnhandledDivergenceAllowed, gExitCalled, divTerminate,
                 divSent, divSets>>
  /\ UNCHANGED notDiv

\* part_005:710-713: the message is sent and the thread waits forever.
ReportUnhandledDivergenceSend(t) ==
  /\ DivRunning
  /\ divPc[t] = "send"
  /\ divSent' = Append(divSent, [mType |-> "UnhandledDivergence",
                                 mThread |-> t,
                                 mNotAllowed |-> divNotAllowed[t]])
  /\ divPc' = [divPc EXCEPT ![t] = "waitForever"]
  /\ UNCHANGED <<gUnhandledDivergenceAllowed, gExitCalled, divTerminate,
                 divNotAllowed, divSets, divExit>>
  /\ UNCHANGED notDiv

\* The middleman ends the process.
MiddlemanTerminate ==
  /\ DivRunning
  /\ divTerminate = "none"
  /\ divTerminate' = "sent"
  /\ UNCHANGED <<gUnhandledDivergenceAllowed, gExitCalled, divPc,
                 divNotAllowed, divSent, divSets, divExit>>
  /\ UNCHANGED notDiv

\* part_005:136-138: the channel thread sets the flag ...
TerminateSetExitCalled ==
  /\ DivRunning
  /\ divTerminate = "sent"
  /\ gExitCalled' = TRUE
  /\ divTerminate' = "flagged"
  /\ UNCHANGED <<gUnhandledDivergenceAllowed, divPc, divNotAllowed, divSent,
                 divSets, divExit>>
  /\ UNCHANGED notDiv

\* ... part_005:139: and then calls _exit(0).
TerminateExit ==
  /\ DivRunning
  /\ divTerminate = "flagged"
  /\ divExit' = "exited"
  /\ UNCHANGED <<gUnhandledDivergenceAllowed, gExitCalled, divTerminate,
                 divPc, divNotAllowed, divSent, divSets>>
  /\ UNCHANGED notDiv

DivStart ==
  /\ gUnhandledDivergenceAllowed = TRUE
  /\ gExitCalled = FALSE
  /\ divTerminate = "none"
  /\ divPc = [t \in Threads |-> "run"]
  /\ divNotAllowed = [t \in Threads |-> FALSE]
  /\ divSent = <<>>
  /\ divSets = 0
  /\ divExit = "none"

NextDiv ==
  \/ \E aAllowed \in BOOLEAN : SetUnhandledDivergenceAllowed(aAllowed)
  \/ \E t \in Threads : ReportUnhandledDivergence(t)
  \/ \E t \in Threads : ReportUnhandledDivergenceSend(t)
  \/ MiddlemanTerminate
  \/ TerminateSetExitCalled
  \/ TerminateExit

(***************************************************************************)
(* OrderedAtomic (RecordReplay.h:197-229): an Atomic with an ordered lock  *)
(* of its own.  Each operation is OrderedLock, the access to mInner,       *)
(* OrderedUnlock.  The ordered lock follows the protocol of the lock       *)
(* group, for one lock and threads that are not in pass-through mode.      *)
(***************************************************************************)
\* Operations on the atomic made while recording, over all threads.
MaxAtomicOps == 3

AtomValues == {0, 1}
AtomInit == 0
AtomOps ==
  [kind : {"assign", "exchange"}, val : AtomValues]
    \cup {[kind |-> "read", val |-> AtomInit]}
NoAtomOp == [kind |-> "none", val |-> AtomInit]

\* Which operations take mOrderedLockId around their access to mInner:
\* operator=, operator T and exchange all do.
OrderedAtomicLocks_ReadUnlocked(aKind) == aKind # "read"

OrderedAtomicLocks(aKind) == aKind \in {"assign", "read", "exchange"}

\* The access itself: the new value of mInner and the value returned.
OrderedAtomicAccess(aOp, inner) ==
  CASE aOp.kind = "assign"   -> [inner |-> aOp.val, rv |-> aOp.val]
    [] aOp.kind = "read"     -> [inner |-> inner,   rv |-> inner]
    [] aOp.kind = "exchange" -> [inner |-> aOp.val, rv |-> inner]

\* OrderedLock(mOrderedLockId) returns for thread t.
AtomicOrderedLock(t) ==
  /\ atomLockOwner = NoThread
  /\ atomKind = "Replaying" =>
       /\ atomCursor < Len(atomLockStream)
       /\ atomLockStream[atomCursor + 1] = t
  /\ atomLockOwner' = t
  /\ atomLockStream' =
       IF atomKind = "Recording" THEN Append(atomLockStream, t)
       ELSE atomLockStream
  /\ atomCursor' =
       IF atomKind = "Replaying" THEN atomCursor + 1 ELSE atomCursor

\* Thread t enters an operation of the atomic: the OrderedLock call.
OrderedAtomicBegin(t, aOp) ==
  /\ atomPc[t] = "idle"
  /\ IF OrderedAtomicLocks(aOp.kind)
     THEN AtomicOrderedLock(t)
     ELSE UNCHANGED <<atomLockOwner, atomLockStream, atomCursor>>
  /\ atomPc' = [atomPc EXCEPT ![t] = "locked"]
  /\ atomOp' = [atomOp EXCEPT ![t] = aOp]
  /\ UNCHANGED <<atomKind, mInner, atomRecAccesses, atomRepAccesses>>
  /\ UNCHANGED notAtom

\* While recording a thread makes whichever operation its code reaches.
RecordingOrderedAtomic(t, aOp) ==
  /\ atomKind = "Recording"
  /\ Len(atomCalls[1]) + Len(atomCalls[2]) < MaxAtomicOps
  /\ OrderedAtomicBegin(t, aOp)
  /\ atomCalls' = [atomCalls EXCEPT ![t] = Append(@, aOp)]
  /\ UNCHANGED atomCallPos

\* While replaying a thread repeats the operations it made while recording.
ReplayingOrderedAtomic(t) ==
  /\ atomKind = "Replaying"
  /\ atomCallPos[t] < Len(atomCalls[t])
  /\ OrderedAtomicBegin(t, atomCalls[t][atomCallPos[t] + 1])
  /\ atomCallPos' = [atomCallPos EXCEPT ![t] = @ + 1]
  /\ UNCHANGED atomCalls

\* The access to mInner between OrderedLock and OrderedUnlock.
OrderedAtomicInner(t) ==
  /\ atomPc[t] = "locked"
  /\ LET r == OrderedAtomicAccess(atomOp[t], mInner)
         access == [thread |-> t, kind |-> atomOp[t].kind,
                    val |-> atomOp[t].val, rv |-> r.rv,
                    held |-> atomLockOwner = t]
     IN /\ mInner' = r.inner
        /\ IF atomKind = "Recording"
           THEN /\ atomRecAccesses' = Append(atomRecAccesses, access)
                /\ UNCHANGED atomRepAccesses
           ELSE /\ atomRepAccesses' = Append(atomRepAccesses, access)
                /\ UNCHANGED atomRecAccesses
  /\ atomPc' = [atomPc EXCEPT ![t] = "accessed"]
  /\ UNCHANGED <<atomKind, atomLockOwner, atomLockStream, atomCursor, atomOp,
                 atomCalls, atomCallPos>>
  /\ UNCHANGED notAtom

\* OrderedUnlock(mOrderedLockId) and the return of the operation.
OrderedAtomicEnd(t) ==
  /\ atomPc[t] = "accessed"
  /\ atomLockOwner' = IF atomLockOwner = t THEN NoThread ELSE atomLockOwner
  /\ atomPc' = [atomPc EXCEPT ![t] = "idle"]
  /\ atomOp' = [atomOp EXCEPT ![t] = NoAtomOp]
  /\ UNCHANGED <<atomKind, mInner, atomLockStream, atomCursor, atomCalls,
                 atomCallPos, atomRecAccesses, atomRepAccesses>>
  /\ UNCHANGED notAtom

\* The recording is finished with no operation in progress, and a
\* replaying process constructs the atomic anew.
AtomStartReplaying ==
  /\ atomKind = "Recording"
  /\ \A t \in Threads : atomPc[t] = "idle"
  /\ atomKind' = "Replaying"
  /\ mInner' = AtomInit
  /\ atomCursor' = 0
  /\ UNCHANGED <<atomLockOwner, atomLockStream, atomPc, atomOp, atomCalls,
                 atomCallPos, atomRecAccesses, atomRepAccesses>>
  /\ UNCHANGED notAtom

AtomStart ==
  /\ atomKind = "Recording"
  /\ mInner = AtomInit
  /\ atomLockOwner = NoThread
  /\ atomLockStream = <<>>
  /\ atomCursor = 0
  /\ atomPc = [t \in Threads |-> "idle"]
  /\ atomOp = [t \in Threads |-> NoAtomOp]
  /\ atomCalls = [t \in Threads |-> <<>>]
  /\ atomCallPos = [t \in Threads |-> 0]
  /\ atomRecAccesses = <<>>
  /\ atomRepAccesses = <<>>

NextAtom ==
  \/ \E t \in Threads, aOp \in AtomOps : RecordingOrderedAtomic(t, aOp)
  \/ \E t \in Threads : ReplayingOrderedAtomic(t)
  \/ \E t \in Threads : OrderedAtomicInner(t)
  \/ \E t \in Threads : OrderedAtomicEnd(t)
  \/ AtomStartReplaying

(***************************************************************************)
(* The role of the process.  mozilla::recordreplay::Initialize             *)
(* (mfbt/RecordReplay.cpp:130-155) loads RecordReplayInterface_Initialize  *)
(* and calls it; that function sets the role flags, from the process kind  *)
(* given on the command line (ProcessRecordReplay.cpp:122-143) or from the *)
(* driver's gRecordReplayIsReplaying (ProcessRecordReplay.cpp:1030-1032).  *)
(***************************************************************************)
\* Calls of Initialize.
MaxInitCalls == 3

ProcessKinds ==
  {"Recording", "Replaying", "MiddlemanRecording", "MiddlemanReplaying"}

\* The arguments of one call: whether the record/replay library is loaded
\* (LoadSymbol finds RecordReplayInterface_Initialize), which of the two
\* initializers it holds, and the kind of process asked for.
InitArgs ==
  [hasSymbol : {TRUE}, byKind : {TRUE}, kind : ProcessKinds]
    \cup [hasSymbol : {TRUE}, byKind : {FALSE},
          kind : {"Recording", "Replaying"}]
    \cup {[hasSymbol |-> FALSE, byKind |-> FALSE, kind |-> "Recording"]}

RoleFlags ==
  [recordingOrReplaying |-> gIsRecordingOrReplaying,
   recording |-> gIsRecording,
   replaying |-> gIsReplaying,
   middleman |-> gIsMiddleman]

\* mfbt/RecordReplay.cpp:133-136: a call goes on when gInitialized is unset.
InitializeRuns_Always(aInitialized) == TRUE

InitializeRuns(aInitialized) == ~aInitialized

\* mozilla::recordreplay::Initialize up to the call of `initialize`.
Initialize(aArgs) ==
  /\ rolePc = "idle"
  /\ Len(roleLog) < MaxInitCalls
  /\ roleLog' = Append(roleLog, aArgs)
  /\ IF InitializeRuns(gInitialized)
     THEN /\ gInitialized' = TRUE
          /\ IF aArgs.hasSymbol
             THEN /\ rolePc' = IF aArgs.byKind THEN "kind" ELSE "driver1"
                  /\ roleArgs' = aArgs
                  /\ UNCHANGED roleFirst
             ELSE /\ roleFirst' = IF roleLog = <<>> THEN RoleFlags
                                  ELSE roleFirst
                  /\ UNCHANGED <<rolePc, roleArgs>>
     ELSE UNCHANGED <<gInitialized, rolePc, roleArgs, roleFirst>>
  /\ UNCHANGED <<gIsRecordingOrReplaying, gIsRecording, gIsReplaying,
                 gIsMiddleman>>
  /\ UNCHANGED notRole

\* ProcessRecordReplay.cpp:127-143: the switch on the process kind.
InitializeProcessKind ==
  /\ rolePc = "kind"
  /\ gIsRecording' = IF roleArgs.kind = "Recording" THEN TRUE
                     ELSE gIsRecording
  /\ gIsReplaying' = IF roleArgs.kind = "Replaying" THEN TRUE
                     ELSE gIsReplaying
  /\ gIsRecordingOrReplaying' =
       IF roleArgs.kind \in {"Recording", "Replaying"} THEN TRUE
       ELSE gIsRecordingOrReplaying
  /\ gIsMiddleman' =
       IF roleArgs.kind \in {"MiddlemanRecording", "MiddlemanReplaying"}
       THEN TRUE ELSE gIsMiddleman
  /\ rolePc' = "return"
  /\ UNCHANGED <<gInitialized, roleArgs, roleLog, roleFirst>>
  /\ UNCHANGED notRole

\* ProcessRecordReplay.cpp:1030-1032, one assignment per step;
\* gRecordReplayIsReplaying() is the driver's answer for this process.
InitializeFromDriver ==
  /\ rolePc \in {"driver1", "driver2", "driver3"}
  /\ LET isReplaying == roleArgs.kind = "Replaying"
     IN CASE rolePc = "driver1" ->
               /\ gIsRecordingOrReplaying' = TRUE
               /\ rolePc' = "driver2"
               /\ UNCHANGED <<gIsRecording, gIsReplaying>>
          [] rolePc = "driver2" ->
               /\ gIsRecording' = ~isReplaying
               /\ rolePc' = "driver3"
               /\ UNCHANGED <<gIsRecordingOrReplaying, gIsReplaying>>
          [] rolePc = "driver3" ->
               /\ gIsReplaying' = isReplaying
               /\ rolePc' = "return"
               /\ UNCHANGED <<gIsRecordingOrReplaying, gIsRecording>>
  /\ UNCHANGED <<gInitialized, gIsMiddleman, roleArgs, roleLog, roleFirst>>
  /\ UNCHANGED notRole

\* RecordReplayInterface_Initialize and Initialize return.
InitializeReturn ==
  /\ rolePc = "return"
  /\ rolePc' = "idle"
  /\ roleFirst' = IF Len(roleLog) = 1 THEN RoleFlags ELSE roleFirst
  /\ UNCHANGED <<gInitialized, gIsRecordingOrReplaying, gIsRecording,
                 gIsReplaying, gIsMiddleman, roleArgs, roleLog>>
  /\ UNCHANGED notRole

RoleStart ==
  /\ gInitialized = FALSE
  /\ gIsRecordingOrReplaying = FALSE
  /\ gIsRecording = FALSE
  /\ gIsReplaying = FALSE
  /\ gIsMiddleman = FALSE
  /\ rolePc = "idle"
  /\ roleArgs = [hasSymbol |-> FALSE, byKind |-> FALSE, kind |-> "Recording"]
  /\ roleLog = <<>>
  /\ roleFirst = [recordingOrReplaying |-> FALSE, recording |-> FALSE,
                  replaying |-> FALSE, middleman |-> FALSE]

NextRole ==
  \/ \E aArgs \in InitArgs : Initialize(aArgs)
  \/ InitializeProcessKind
  \/ InitializeFromDriver
  \/ InitializeReturn

(***************************************************************************)
(* The summary stream (ProcessRecordReplay.cpp:327-349).  OpenStream       *)
(* returns the one stream of that name, whose read cursor stays where the  *)
(* last read left it; the replaying process holds the whole recording.     *)
(* The vectors are the caller's: GetRecordingSummary appends to them.      *)
(***************************************************************************)
\* Checkpoint summaries added while recording.
MaxSummaries == 2
\* Calls of GetRecordingSummary.
MaxSummaryReads == 2

SummaryValues == {1, 2}

\* Stream::AtEnd.
AtEnd(S) == S.pos >= Len(S.events)

\* ProcessRecordReplay.cpp:332-334: the three scalars of one summary.
WriteSummary(S, aProgress, aElapsed, aTime) ==
  WriteScalar(WriteScalar(WriteScalar(S, aProgress), aElapsed), aTime)

AddCheckpointSummary(aProgress, aElapsed, aTime) ==
  /\ sumKind = "Recording"
  /\ Len(sumWritten) < MaxSummaries
  /\ sumStream' = WriteSummary(sumStream, aProgress, aElapsed, aTime)
  /\ sumWritten' = Append(sumWritten, [progress |-> aProgress,
                                       elapsed |-> aElapsed,
                                       time |-> aTime])
  /\ UNCHANGED <<sumKind, sumProgressCounters, sumElapsed, sumTimes,
                 sumReads>>
  /\ UNCHANGED notSum

\* ProcessRecordReplay.cpp:345-347: one iteration reads three scalars.
ReadTriple_ElapsedFirst(S) ==
  LET r1 == ReadScalar(S)
      r2 == ReadScalar(r1.s)
      r3 == ReadScalar(r2.s)
  IN [s |-> r3.s, progress |-> r2.v, elapsed |-> r1.v, time |-> r3.v]

ReadTriple(S) ==
  LET r1 == ReadScalar(S)
      r2 == ReadScalar(r1.s)
      r3 == ReadScalar(r2.s)
  IN [s |-> r3.s, progress |-> r1.v, elapsed |-> r2.v, time |-> r3.v]

\* ProcessRecordReplay.cpp:344-348: the loop of GetRecordingSummary.
RECURSIVE ReadSummary(_, _, _, _)
ReadSummary(S, p, e, t) ==
  IF AtEnd(S) \/ S.fatal # "none"
  THEN [s |-> S, progress |-> p, elapsed |-> e, times |-> t]
  ELSE LET r == ReadTriple(S)
       IN ReadSummary(r.s, Append(p, r.progress), Append(e, r.elapsed),
                      Append(t, r.time))

GetRecordingSummary ==
  /\ sumKind = "Replaying"
  /\ sumReads < MaxSummaryReads
  /\ LET r == ReadSummary(sumStream, sumProgressCounters, sumElapsed,
                          sumTimes)
     IN /\ sumStream' = r.s
        /\ sumProgressCounters' = r.progress
        /\ sumElapsed' = r.elapsed
        /\ sumTimes' = r.times
  /\ sumReads' = sumReads + 1
  /\ UNCHANGED <<sumKind, sumWritten>>
  /\ UNCHANGED notSum

\* The recording is finished and a replaying process is started on it.
SummaryStartReplaying ==
  /\ sumKind = "Recording"
  /\ sumKind' = "Replaying"
  /\ sumStream' = Stream(sumStream.events, 0, "none")
  /\ UNCHANGED <<sumWritten, sumProgressCounters, sumElapsed, sumTimes,
                 sumReads>>
  /\ UNCHANGED notSum

SumStart ==
  /\ sumKind = "Recording"
  /\ sumStream = Stream(<<>>, 0, "none")
  /\ sumWritten = <<>>
  /\ sumProgressCounters = <<>>
  /\ sumElapsed = <<>>
  /\ sumTimes = <<>>
  /\ sumReads = 0

NextSum ==
  \/ \E aProgress \in SummaryValues, aElapsed \in SummaryValues,
        aTime \in SummaryValues :
       AddCheckpointSummary(aProgress, aElapsed, aTime)
  \/ GetRecordingSummary
  \/ SummaryStartReplaying

(***************************************************************************)
(* BaseStaticMutex (StaticMutex.h:28-63).  mMutex starts out null; Lock()  *)
(* and Unlock() go through Mutex(), which allocates the mutex on first use *)
(* and publishes it with compareExchange.  Each statement of Mutex() is    *)
(* one step.                                                               *)
(***************************************************************************)
\* Lock() calls of one thread.
MaxMutexCalls == 2

NoMutex == 0
\* A thread allocates at most one mutex: after its compareExchange mMutex
\* is set.
MutexIds == 1..Cardinality(Threads)

\* Atomic::compareExchange of StaticMutex.h:56 on the current value.
compareExchange_Store(aCurrent, aOldValue, aNewValue) ==
  [ok |-> TRUE, value |-> aNewValue]

compareExchange(aCurrent, aOldValue, aNewValue) ==
  IF aCurrent = aOldValue THEN [ok |-> TRUE, value |-> aNewValue]
  ELSE [ok |-> FALSE, value |-> aCurrent]

\* StaticMutex.h:38 and 51-53: Lock() enters Mutex(), which tests mMutex.
StaticMutexLock(t) ==
  /\ smPc[t] = "idle"
  /\ smCalls[t] < MaxMutexCalls
  /\ IF mMutex # NoMutex
     THEN /\ smReturned' = [smReturned EXCEPT ![t] = mMutex]
          /\ smPc' = [smPc EXCEPT ![t] = "lock"]
     ELSE /\ smPc' = [smPc EXCEPT ![t] = "new"]
          /\ UNCHANGED smReturned
  /\ UNCHANGED <<mMutex, smLocal, smNew, smDeleted, smLocked, smOwner,
                 smCalls>>
  /\ UNCHANGED notSm

\* StaticMutex.h:55: new OffTheBooksMutex.
MutexNew(t) ==
  /\ smPc[t] = "new"
  /\ LET id == CHOOSE i \in MutexIds : i \notin smNew
     IN /\ smLocal' = [smLocal EXCEPT ![t] = id]
        /\ smNew' = smNew \cup {id}
  /\ smPc' = [smPc EXCEPT ![t] = "compareExchange"]
  /\ UNCHANGED <<mMutex, smReturned, smDeleted, smLocked, smOwner, smCalls>>
  /\ UNCHANGED notSm

\* StaticMutex.h:56-58: publish the new mutex, or delete it.
MutexCompareExchange(t) ==
  /\ smPc[t] = "compareExchange"
  /\ LET r == compareExchange(mMutex, NoMutex, smLocal[t])
     IN /\ mMutex' = r.value
        /\ smDeleted' = IF r.ok THEN smDeleted
                        ELSE smDeleted \cup {smLocal[t]}
  /\ smPc' = [smPc EXCEPT ![t] = "return"]
  /\ UNCHANGED <<smLocal, smReturned, smNew, smLocked, smOwner, smCalls>>
  /\ UNCHANGED notSm

\* StaticMutex.h:60: return mMutex.
MutexReturn(t) ==
  /\ smPc[t] = "return"
  /\ smReturned' = [smReturned EXCEPT ![t] = mMutex]
  /\ smPc' = [smPc EXCEPT ![t] = "lock"]
  /\ UNCHANGED <<mMutex, smLocal, smNew, smDeleted, smLocked, smOwner,
                 smCalls>>
  /\ UNCHANGED notSm

\* StaticMutex.h:38: ->Lock() on the mutex returned, which blocks while
\* another thread holds it.
MutexLock(t) ==
  /\ smPc[t] = "lock"
  /\ smOwner[smReturned[t]] = NoThread
  /\ smOwner' = [smOwner EXCEPT ![smReturned[t]] = t]
  /\ smLocked' = smLocked \cup {smReturned[t]}
  /\ smPc' = [smPc EXCEPT ![t] = "held"]
  /\ smCalls' = [smCalls EXCEPT ![t] = @ + 1]
  /\ UNCHANGED <<mMutex, smLocal, smReturned, smNew, smDeleted>>
  /\ UNCHANGED notSm

\* StaticMutex.h:40: Unlock(), whose Mutex() finds mMutex set.
StaticMutexUnlock(t) ==
  /\ smPc[t] = "held"
  /\ smReturned' = [smReturned EXCEPT ![t] = mMutex]
  /\ smOwner' = [smOwner EXCEPT ![mMutex] = IF @ = t THEN NoThread ELSE @]
  /\ smPc' = [smPc EXCEPT ![t] = "idle"]
  /\ UNCHANGED <<mMutex, smLocal, smNew, smDeleted, smLocked, smCalls>>
  /\ UNCHANGED notSm

SmStart ==
  /\ mMutex = NoMutex
  /\ smPc = [t \in Threads |-> "idle"]
  /\ smLocal = [t \in Threads |-> NoMutex]
  /\ smReturned = [t \in Threads |-> NoMutex]
  /\ smNew = {}
  /\ smDeleted = {}
  /\ smLocked = {}
  /\ smOwner = [m \in MutexIds |-> NoThread]
  /\ smCalls = [t \in Threads |-> 0]

NextSm ==
  \/ \E t \in Threads : StaticMutexLock(t)
  \/ \E t \in Threads : MutexNew(t)
  \/ \E t \in Threads : MutexCompareExchange(t)
  \/ \E t \in Threads : MutexReturn(t)
  \/ \E t \in Threads : MutexLock(t)
  \/ \E t \in Threads : StaticMutexUnlock(t)

(***************************************************************************)
(* Routing of channel messages by fork id.  ChannelMessageHandler          *)
(* (part_005:118-130) compares the message's mForkId with gForkId: the     *)
(* root (gForkId = 0) passes a message for another id to                   *)
(* SendMessageToForkedProcess (part_005:464-488), a fork drops it.         *)
(* ForkListenerThread (part_005:417-450) sends the pending messages of a   *)
(* fork and registers it, all under gMonitor, which                        *)
(* SendMessageToForkedProcess takes as well: each is one step.             *)
(***************************************************************************)
\* Messages the middleman sends to the root, and messages for another
\* process that reach the channel of a fork.
MaxRouteMsgs == 3

RootForkId == 0
RouteProcesses == {RootForkId} \cup ForkIds
RouteTypes == {"ManifestStart", "Terminate"}

RouteMessage(aForkId, aType, aSeq) ==
  [mForkId |-> aForkId, mType |-> aType, mSeq |-> aSeq]

\* part_005:119: the message is for the process that received it.
IsForThisProcess_Always(aMsg, aForkId) == TRUE

IsForThisProcess(aMsg, aForkId) == aMsg.mForkId = aForkId

\* part_005:431-440: the pending messages that are sent to the fork that
\* connected, and those that stay.
SendPending_All(aPending, aForkId) ==
  [send |-> aPending, keep |-> <<>>]

SendPending(aPending, aForkId) ==
  [send |-> SelectSeq(aPending, LAMBDA m : m.mForkId = aForkId),
   keep |-> SelectSeq(aPending, LAMBDA m : m.mForkId # aForkId)]

\* The middleman sends a message for the root or for one of the forks.
RouteMiddlemanSend(aForkId, aType) ==
  /\ routeCount < MaxRouteMsgs
  /\ aForkId = RootForkId => aType # "Terminate"
  /\ routeCount' = routeCount + 1
  /\ routeInbox' = Append(routeInbox,
                          RouteMessage(aForkId, aType, routeCount + 1))
  /\ UNCHANGED <<routeForkState, routePipe, routeForked,
                 routePending, routeChannel, routeReceived, routeForwarded,
                 routeSentTo, routeHandled, routeDropped>>
  /\ UNCHANGED routeFlushed
  /\ UNCHANGED notRoute

\* PerformFork in the root: the new process writes its ForkedProcess
\* record to the pipe (part_005:585-588).
RoutePerformFork(f) ==
  /\ routeForkState[f] = "none"
  /\ routeForkState' = [routeForkState EXCEPT ![f] = "forked"]
  /\ routePipe' = Append(routePipe, f)
  /\ UNCHANGED <<routeInbox, routeCount, routeForked,
                 routePending, routeChannel, routeReceived, routeForwarded,
                 routeSentTo, routeHandled, routeDropped>>
  /\ UNCHANGED routeFlushed
  /\ UNCHANGED notRoute

\* ForkListenerThread, one iteration.
RouteForkListenerThread ==
  /\ routePipe # <<>>
  /\ LET f == Head(routePipe)
         r == SendPending(routePending, f)
     IN /\ routeChannel' = [routeChannel EXCEPT ![f] = @ \o r.send]
        /\ routeSentTo' = [routeSentTo EXCEPT ![f] = @ \o r.send]
        /\ routePending' = r.keep
        /\ routeForked' = routeForked \cup {f}
        /\ routeFlushed' = [routeFlushed EXCEPT ![f] = @ + Len(r.send)]
        /\ routeForkState' = [routeForkState EXCEPT
                                ![f] = IF @ = "forked" THEN "connected"
                                       ELSE @]
  /\ routePipe' = Tail(routePipe)
  /\ UNCHANGED <<routeInbox, routeCount, routeReceived,
                 routeForwarded, routeHandled, routeDropped>>
  /\ UNCHANGED notRoute

\* SendMessageToForkedProcess: to the fork's channel when the fork is
\* registered, the entry being removed after Terminate or Crash; to the
\* pending messages otherwise.
RouteSendMessageToForkedProcess(aMsg) ==
  IF aMsg.mForkId \in routeForked
  THEN /\ routeChannel' = [routeChannel EXCEPT
                             ![aMsg.mForkId] = Append(@, aMsg)]
       /\ routeSentTo' = [routeSentTo EXCEPT
                            ![aMsg.mForkId] = Append(@, aMsg)]
       /\ routeForked' = IF aMsg.mType = "Terminate"
                         THEN routeForked \ {aMsg.mForkId}
                         ELSE routeForked
       /\ UNCHANGED routePending
  ELSE /\ routePending' = Append(routePending, aMsg)
       /\ UNCHANGED <<routeChannel, routeSentTo, routeForked>>

\* ChannelMessageHandler in the root.
RouteRootChannelMessageHandler ==
  /\ routeInbox # <<>>
  /\ LET aMsg == Head(routeInbox)
     IN /\ routeReceived' = Append(routeReceived, aMsg)
        /\ IF IsForThisProcess(aMsg, RootForkId)
           THEN /\ routeHandled' = [routeHandled EXCEPT
                                      ![RootForkId] = Append(@, aMsg)]
                /\ UNCHANGED <<routeChannel, routeSentTo, routeForked,
                               routePending, routeForwarded>>
           ELSE /\ RouteSendMessageToForkedProcess(aMsg)
                /\ routeForwarded' = [routeForwarded EXCEPT
                                        ![aMsg.mForkId] = Append(@, aMsg)]
                /\ UNCHANGED routeHandled
  /\ routeInbox' = Tail(routeInbox)
  /\ UNCHANGED <<routeCount, routeForkState, routePipe,
                 routeDropped>>
  /\ UNCHANGED routeFlushed
  /\ UNCHANGED notRoute

\* A message meant for another process reaches the channel of fork f
\* ("we can receive messages intended for another fork", part_005:122).
\* Its type plays no part: the test of mForkId comes first.
RouteStrayMessage(f, aForkId) ==
  /\ routeForkState[f] \in {"forked", "connected"}
  /\ routeCount < MaxRouteMsgs
  /\ aForkId # f
  /\ routeCount' = routeCount + 1
  /\ routeChannel' = [routeChannel EXCEPT
                        ![f] = Append(@, RouteMessage(aForkId,
                                                      "ManifestStart",
                                                      routeCount + 1))]
  /\ UNCHANGED <<routeInbox, routeForkState, routePipe,
                 routeForked, routePending, routeReceived, routeForwarded,
                 routeSentTo, routeHandled, routeDropped>>
  /\ UNCHANGED routeFlushed
  /\ UNCHANGED notRoute

\* ChannelMessageHandler in fork f (gForkId = f): a message for another
\* id is dropped; Terminate ends the process (part_005:136-141).
RouteForkChannelMessageHandler(f) ==
  /\ routeForkState[f] \in {"forked", "connected"}
  /\ routeChannel[f] # <<>>
  /\ LET aMsg == Head(routeChannel[f])
     IN IF IsForThisProcess(aMsg, f)
        THEN /\ routeHandled' = [routeHandled EXCEPT ![f] = Append(@, aMsg)]
             /\ routeForkState' =
                  [routeForkState EXCEPT
                     ![f] = IF aMsg.mType = "Terminate" THEN "exited" ELSE @]
             /\ UNCHANGED routeDropped
        ELSE /\ routeDropped' = [routeDropped EXCEPT ![f] = Append(@, aMsg)]
             /\ UNCHANGED <<routeHandled, routeForkState>>
  /\ routeChannel' = [routeChannel EXCEPT ![f] = Tail(@)]
  /\ UNCHANGED <<routeInbox, routeCount, routePipe,
                 routeForked, routePending, routeReceived, routeForwarded,
                 routeSentTo>>
  /\ UNCHANGED routeFlushed
  /\ UNCHANGED notRoute

RouteStart ==
  /\ routeInbox = <<>>
  /\ routeCount = 0
  /\ routeForkState = [f \in ForkIds |-> "none"]
  /\ routePipe = <<>>
  /\ routeForked = {}
  /\ routePending = <<>>
  /\ routeChannel = [f \in ForkIds |-> <<>>]
  /\ routeReceived = <<>>
  /\ routeForwarded = [f \in ForkIds |-> <<>>]
  /\ routeSentTo = [f \in ForkIds |-> <<>>]
  /\ routeHandled = [p \in RouteProcesses |-> <<>>]
  /\ routeDropped = [f \in ForkIds |-> <<>>]
  /\ routeFlushed = [f \in ForkIds |-> 0]

NextRoute ==
  \/ \E p \in RouteProcesses, aType \in RouteTypes :
       RouteMiddlemanSend(p, aType)
  \/ \E f \in ForkIds : RoutePerformFork(f)
  \/ RouteForkListenerThread
  \/ RouteRootChannelMessageHandler
  \/ \E f \in ForkIds, p \in RouteProcesses : RouteStrayMessage(f, p)
  \/ \E f \in ForkIds : RouteForkChannelMessageHandler(f)

(***************************************************************************)
(* Manifests (part_005:79-85, 188-198, 1256-1305).  The channel thread     *)
(* queues every ManifestStart message; a manifest is handed to the script  *)
(* by a callback that runs on the main thread, and the script answers each *)
(* manifest with one call of ManifestFinished, also on the main thread.    *)
(* The process starts with gProcessingManifest set: the start-up of the    *)
(* process counts as a manifest, which the script finishes like any other. *)
(* A manifest is named by the position of its message in the order of      *)
(* receipt.  PauseMainThreadAndInvokeCallback is not among the sources: it *)
(* appends the callback to a queue that the main thread runs in order.     *)
(***************************************************************************)
MaxManifests == 3

StartupManifest == 0

ManifestIds == 1..MaxManifests

ManStart ==
  /\ gPendingManifests = <<>>
  /\ gProcessingManifest = TRUE
  /\ gMainThreadCallbacks = <<>>
  /\ manReceived = 0
  /\ manJs = {StartupManifest}
  /\ manStarted = <<>>
  /\ manFinishedSent = <<>>
  /\ manCrashed = FALSE

\* PauseMainThreadAndInvokeCallback (called at part_005:1261 and 1297):
\* the callback joins the callbacks which the main thread runs in order.
PauseMainThreadAndInvokeCallback(aCallbacks, aCallback) ==
  Append(aCallbacks, aCallback)

\* The test of part_005:1257 without its second half.
CanStartNextManifest_Always(aPending, aProcessing) == aPending # <<>>

\* part_005:1257
CanStartNextManifest(aPending, aProcessing) ==
  aPending # <<>> /\ ~aProcessing

\* part_005:1256-1266: what MaybeStartNextManifest leaves in the queue of
\* manifests, in gProcessingManifest and in the queue of callbacks.
MaybeStartNextManifest(aPending, aProcessing, aCallbacks) ==
  IF CanStartNextManifest(aPending, aProcessing)
  THEN [pending |-> Tail(aPending),
        processing |-> TRUE,
        callbacks |-> PauseMainThreadAndInvokeCallback(
                        aCallbacks,
                        [mKind |-> "ManifestStart",
                         mManifest |-> Head(aPending)])]
  ELSE [pending |-> aPending,
        processing |-> aProcessing,
        callbacks |-> aCallbacks]

\* part_005:188-198: the channel thread receives a ManifestStart message.
ManifestStartMessageHandler ==
  /\ ~manCrashed
  /\ manReceived < MaxManifests
  /\ LET r == MaybeStartNextManifest(
                Append(gPendingManifests, manReceived + 1),
                gProcessingManifest, gMainThreadCallbacks)
     IN /\ gPendingManifests' = r.pending
        /\ gProcessingManifest' = r.processing
        /\ gMainThreadCallbacks' = r.callbacks
  /\ manReceived' = manReceived + 1
  /\ UNCHANGED <<manJs, manStarted, manFinishedSent, manCrashed>>
  /\ UNCHANGED notMan

\* part_005:1261-1264: the main thread runs the callback that hands the
\* manifest to the script.
ManifestStartCallback ==
  /\ ~manCrashed
  /\ gMainThreadCallbacks # <<>>
  /\ Head(gMainThreadCallbacks).mKind = "ManifestStart"
  /\ manStarted' = Append(manStarted, Head(gMainThreadCallbacks).mManifest)
  /\ manJs' = manJs \cup {Head(gMainThreadCallbacks).mManifest}
  /\ gMainThreadCallbacks' = Tail(gMainThreadCallbacks)
  /\ UNCHANGED <<gPendingManifests, gProcessingManifest, manReceived,
                 manFinishedSent, manCrashed>>
  /\ UNCHANGED notMan

\* part_005:1270-1305: the script finishes manifest m on the main thread.
\* The message is built before the callback is queued: it is compressed when
\* aCompress is set (1276-1286) and marked as bulk when aBulk is (1287-1289).
ManifestFinished(m, aBulk, aCompress) ==
  /\ ~manCrashed
  /\ m \in manJs
  /\ manJs' = manJs \ {m}
  /\ IF gProcessingManifest
     THEN /\ gMainThreadCallbacks' =
               PauseMainThreadAndInvokeCallback(
                 gMainThreadCallbacks,
                 [mKind |-> "ManifestFinished", mManifest |-> m,
                  mBulk |-> aBulk, mCompressed |-> aCompress])
          /\ UNCHANGED manCrashed
     ELSE /\ manCrashed' = TRUE
          /\ UNCHANGED gMainThreadCallbacks
  /\ UNCHANGED <<gPendingManifests, gProcessingManifest, manReceived,
                 manStarted, manFinishedSent>>
  /\ UNCHANGED notMan

\* part_005:1297-1304: the main thread runs the callback that sends the
\* ManifestFinished message and starts the next manifest.
ManifestFinishedCallback ==
  /\ ~manCrashed
  /\ gMainThreadCallbacks # <<>>
  /\ Head(gMainThreadCallbacks).mKind = "ManifestFinished"
  /\ manFinishedSent' =
       Append(manFinishedSent,
              [mManifest |-> Head(gMainThreadCallbacks).mManifest,
               mBulk |-> Head(gMainThreadCallbacks).mBulk,
               mCompressed |-> Head(gMainThreadCallbacks).mCompressed])
  /\ LET r == MaybeStartNextManifest(gPendingManifests, FALSE,
                                     Tail(gMainThreadCallbacks))
     IN /\ gPendingManifests' = r.pending
        /\ gProcessingManifest' = r.processing
        /\ gMainThreadCallbacks' = r.callbacks
  /\ UNCHANGED <<manReceived, manJs, manStarted, manCrashed>>
  /\ UNCHANGED notMan

NextMan ==
  \/ ManifestStartMessageHandler
  \/ ManifestStartCallback
  \/ \E m \in {StartupManifest} \cup ManifestIds, aBulk, aCompress \in BOOLEAN :
       ManifestFinished(m, aBulk, aCompress)
  \/ ManifestFinishedCallback

(***************************************************************************)
(* External call requests (part_005:95-101, 199-207, 1307-1337).  Any      *)
(* thread may call SendExternalCallRequest; the whole function runs under  *)
(* gMonitor, which it gives up only inside its two waits.  The middleman   *)
(* answers every request it receives with one ExternalCallResponse, whose  *)
(* data are the answer to that request and whose tag says whether the      *)
(* output is available.                                                    *)
(***************************************************************************)
MaxExternalCalls == 2

NoResponse == [mRequest |-> 0, mTag |-> 0]

ExtStart ==
  /\ gWaitingForCallResponse = FALSE
  /\ gCallResponseMessage = NoResponse
  /\ extPc = [t \in Threads |-> "idle"]
  /\ extRequest = [t \in Threads |-> 0]
  /\ extSerial = 0
  /\ extToParent = <<>>
  /\ extToChild = <<>>
  /\ extOutput = [t \in Threads |-> <<>>]
  /\ extCrashed = FALSE

\* The loop of part_005:1314-1316 left out.
MustWaitForCallSlot_Never(aWaiting) == FALSE

\* part_005:1314-1316: the caller waits while another request is waiting.
MustWaitForCallSlot(aWaiting) == aWaiting

\* part_005:1307-1321: thread t gets past the first wait, claims the slot
\* and sends its request.
SendExternalCallRequest(t) ==
  /\ ~extCrashed
  /\ extPc[t] = "idle"
  /\ Len(extOutput[t]) < MaxExternalCalls
  /\ ~MustWaitForCallSlot(gWaitingForCallResponse)
  /\ gWaitingForCallResponse' = TRUE
  /\ extSerial' = extSerial + 1
  /\ extRequest' = [extRequest EXCEPT ![t] = extSerial + 1]
  /\ extToParent' = Append(extToParent, extSerial + 1)
  /\ extPc' = [extPc EXCEPT ![t] = "sent"]
  /\ UNCHANGED <<gCallResponseMessage, extToChild, extOutput, extCrashed>>
  /\ UNCHANGED notExt

\* The middleman answers the oldest request; aTag is zero when the output
\* is unavailable.
MiddlemanExternalCallResponse(aTag) ==
  /\ ~extCrashed
  /\ extToParent # <<>>
  /\ extToChild' = Append(extToChild,
                          [mRequest |-> Head(extToParent), mTag |-> aTag])
  /\ extToParent' = Tail(extToParent)
  /\ UNCHANGED <<gWaitingForCallResponse, gCallResponseMessage, extPc,
                 extRequest, extSerial, extOutput, extCrashed>>
  /\ UNCHANGED notExt

\* part_005:199-207: the channel thread receives an ExternalCallResponse.
ExternalCallResponseHandler ==
  /\ ~extCrashed
  /\ extToChild # <<>>
  /\ extToChild' = Tail(extToChild)
  /\ IF gWaitingForCallResponse /\ gCallResponseMessage = NoResponse
     THEN /\ gCallResponseMessage' = Head(extToChild)
          /\ UNCHANGED extCrashed
     ELSE /\ extCrashed' = TRUE
          /\ UNCHANGED gCallResponseMessage
  /\ UNCHANGED <<gWaitingForCallResponse, extPc, extRequest, extSerial,
                 extToParent, extOutput>>
  /\ UNCHANGED notExt

\* part_005:1323-1337: thread t gets past the second wait, copies the
\* response and frees the slot.
SendExternalCallRequestReturn(t) ==
  /\ ~extCrashed
  /\ extPc[t] = "sent"
  /\ gCallResponseMessage # NoResponse
  /\ extOutput' = [extOutput EXCEPT ![t] =
                     Append(@, [mRequest |-> extRequest[t],
                                mResponse |-> gCallResponseMessage.mRequest,
                                mUnavailable |->
                                  gCallResponseMessage.mTag = 0])]
  /\ gCallResponseMessage' = NoResponse
  /\ gWaitingForCallResponse' = FALSE
  /\ extPc' = [extPc EXCEPT ![t] = "idle"]
  /\ UNCHANGED <<extRequest, extSerial, extToParent, extToChild, extCrashed>>
  /\ UNCHANGED notExt

NextExt ==
  \/ \E t \in Threads : SendExternalCallRequest(t)
  \/ \E aTag \in {0, 1} : MiddlemanExternalCallResponse(aTag)
  \/ ExternalCallResponseHandler
  \/ \E t \in Threads : SendExternalCallRequestReturn(t)

(***************************************************************************)
(* FlushRecording (ProcessRecordReplay.cpp:289-311) in a recording         *)
(* process, with SendRecordingData (part_005:1346-1352).  Threads write    *)
(* bytes to their streams; Recording::Flush moves what the streams have    *)
(* buffered to the end of the recording.  RecordReplayValue hands back the *)
(* size it is given and, unless the caller passes thread events through,   *)
(* writes it to the stream of the main thread, where it waits for the next *)
(* flush.                                                                  *)
(***************************************************************************)
MaxFlushBytes == 4

MaxFlushCalls == 3

FlushByteValues == {0, 1}

FlushStart ==
  /\ flushRecording = <<>>
  /\ flushBuffered = <<>>
  /\ gRecordingDataSentToMiddleman = 0
  /\ flushSent = <<>>
  /\ flushCalls = 0

\* A thread records one byte.
FlushThreadWrite(b) ==
  /\ Len(flushRecording) + Len(flushBuffered) < MaxFlushBytes
  /\ flushBuffered' = Append(flushBuffered, b)
  /\ UNCHANGED <<flushRecording, gRecordingDataSentToMiddleman, flushSent,
                 flushCalls>>
  /\ UNCHANGED notFlush

\* Recording::Flush (called at ProcessRecordReplay.cpp:296): the recording
\* once the buffered bytes of the streams have been added to it.
RecordingFlush(aRecording, aBuffered) == aRecording \o aBuffered

\* The test of ProcessRecordReplay.cpp:303 always passing.
HasUnsentRecordingData_Always(nbytes, aSent) == TRUE

\* ProcessRecordReplay.cpp:303
HasUnsentRecordingData(nbytes, aSent) == nbytes > aSent

\* part_005:1346-1352: the RecordingData message for aSize bytes of aData
\* that start at offset aStart of the recording.
SendRecordingData(aStart, aData, aSize, aFinish) ==
  [mTag |-> aStart, data |-> SubSeq(aData, 1, aSize), mFinish |-> aFinish]

\* ProcessRecordReplay.cpp:292-311 on the main thread; aPassThrough says
\* whether the caller passes thread events through.
FlushRecording(aFinishRecording, aPassThrough) ==
  /\ flushCalls < MaxFlushCalls
  /\ aPassThrough
     \/ Len(flushRecording) + Len(flushBuffered) < MaxFlushBytes
  /\ flushCalls' = flushCalls + 1
  /\ LET flushed == RecordingFlush(flushRecording, flushBuffered)
         nbytes == Len(flushed)
         aSent == gRecordingDataSentToMiddleman
     IN /\ flushRecording' = flushed
        /\ flushBuffered' = IF aPassThrough THEN <<>> ELSE <<nbytes>>
        /\ IF HasUnsentRecordingData(nbytes, aSent)
           THEN /\ flushSent' =
                     Append(flushSent,
                            SendRecordingData(
                              aSent, SubSeq(flushed, aSent + 1, nbytes),
                              nbytes - aSent, aFinishRecording))
                /\ gRecordingDataSentToMiddleman' = nbytes
           ELSE UNCHANGED <<flushSent, gRecordingDataSentToMiddleman>>
  /\ UNCHANGED notFlush

NextFlush ==
  \/ \E b \in FlushByteValues : FlushThreadWrite(b)
  \/ \E aFinishRecording, aPassThrough \in BOOLEAN :
       FlushRecording(aFinishRecording, aPassThrough)

(***************************************************************************)
(* Shared keys (part_005:911-989).  A fork sets a key by sending key and   *)
(* value to the root in one buffer, the tag of the message being the       *)
(* length of the key; it reads a key by sending a request and waiting on   *)
(* the main thread for the response.  The root handles the messages of a   *)
(* fork in the order in which they were sent, under                        *)
(* gSharedDatabaseMonitor.  Strings are sequences of characters.  Next to  *)
(* the fields of the code a message carries the arguments of the call that *)
(* sent it (aKey, aValue), which only the properties read.                 *)
(***************************************************************************)
MaxKeyOps == 2

SharedKeys == {<<"a">>, <<"a", "b">>}

SharedValues == {<<>>, <<"b">>}

SkStart ==
  /\ gSharedDatabase = [k \in {} |-> <<>>]
  /\ gSharedKeyResponse = [f \in ForkIds |-> <<>>]
  /\ skPc = [f \in ForkIds |-> "idle"]
  /\ skToRoot = [f \in ForkIds |-> <<>>]
  /\ skToFork = [f \in ForkIds |-> <<>>]
  /\ skHandled = <<>>
  /\ skReturns = [f \in ForkIds |-> <<>>]
  /\ skOps = [f \in ForkIds |-> 0]
  /\ skCrashed = FALSE

\* part_005:952-962: fork f sets aKey to aValue.
SetSharedKey(f, aKey, aValue) ==
  /\ ~skCrashed
  /\ skPc[f] = "idle"
  /\ skOps[f] < MaxKeyOps
  /\ skOps' = [skOps EXCEPT ![f] = @ + 1]
  /\ skToRoot' = [skToRoot EXCEPT ![f] =
                    Append(@, [mType |-> "SharedKeySet", mForkId |-> f,
                               mTag |-> Len(aKey), data |-> aKey \o aValue,
                               aKey |-> aKey, aValue |-> aValue])]
  /\ UNCHANGED <<gSharedDatabase, gSharedKeyResponse, skPc, skToFork,
                 skHandled, skReturns, skCrashed>>
  /\ UNCHANGED notSk

\* std::map::insert alone: a key that is present keeps its value.
SharedDatabaseSet_InsertOnly(aDatabase, key, value) ==
  IF key \in DOMAIN aDatabase THEN aDatabase
  ELSE [k \in DOMAIN aDatabase \cup {key} |->
          IF k = key THEN value ELSE aDatabase[k]]

\* part_005:927-928: erase, then insert.
SharedDatabaseSet(aDatabase, key, value) ==
  [k \in DOMAIN aDatabase \cup {key} |->
     IF k = key THEN value ELSE aDatabase[k]]

\* part_005:920-929: the root handles a SharedKeySet message of fork f.
HandleSharedKeySet(f) ==
  /\ ~skCrashed
  /\ skToRoot[f] # <<>>
  /\ Head(skToRoot[f]).mType = "SharedKeySet"
  /\ LET aMsg == Head(skToRoot[f])
         key == SubSeq(aMsg.data, 1, aMsg.mTag)
         value == SubSeq(aMsg.data, aMsg.mTag + 1, Len(aMsg.data))
     IN /\ gSharedDatabase' = SharedDatabaseSet(gSharedDatabase, key, value)
        /\ skHandled' = Append(skHandled,
                               [aKey |-> aMsg.aKey, aValue |-> aMsg.aValue])
  /\ skToRoot' = [skToRoot EXCEPT ![f] = Tail(@)]
  /\ UNCHANGED <<gSharedKeyResponse, skPc, skToFork, skReturns, skOps,
                 skCrashed>>
  /\ UNCHANGED notSk

\* part_005:975-982: fork f asks for aKey and starts to wait.
GetSharedKey(f, aKey) ==
  /\ ~skCrashed
  /\ skPc[f] = "idle"
  /\ skOps[f] < MaxKeyOps
  /\ skOps' = [skOps EXCEPT ![f] = @ + 1]
  /\ skToRoot' = [skToRoot EXCEPT ![f] =
                    Append(@, [mType |-> "SharedKeyRequest", mForkId |-> f,
                               mTag |-> 0, data |-> aKey,
                               aKey |-> aKey, aValue |-> <<>>])]
  /\ skPc' = [skPc EXCEPT ![f] = "waiting"]
  /\ UNCHANGED <<gSharedDatabase, gSharedKeyResponse, skToFork, skHandled,
                 skReturns, skCrashed>>
  /\ UNCHANGED notSk

\* The value of the last SetSharedKey of aKey which the root has handled,
\* or the empty string.
RECURSIVE LastValueSet(_, _)
LastValueSet(aHandled, aKey) ==
  IF aHandled = <<>> THEN <<>>
  ELSE IF aHandled[Len(aHandled)].aKey = aKey
       THEN aHandled[Len(aHandled)].aValue
       ELSE LastValueSet(SubSeq(aHandled, 1, Len(aHandled) - 1), aKey)

\* part_005:931-950: the root handles a SharedKeyRequest message of fork f.
HandleSharedKeyRequest(f) ==
  /\ ~skCrashed
  /\ skToRoot[f] # <<>>
  /\ Head(skToRoot[f]).mType = "SharedKeyRequest"
  /\ LET aMsg == Head(skToRoot[f])
         key == aMsg.data
         value == IF key \in DOMAIN gSharedDatabase
                  THEN gSharedDatabase[key] ELSE <<>>
     IN skToFork' = [skToFork EXCEPT ![aMsg.mForkId] =
                       Append(@, [data |-> value, aKey |-> aMsg.aKey,
                                  expected |->
                                    LastValueSet(skHandled, aMsg.aKey)])]
  /\ skToRoot' = [skToRoot EXCEPT ![f] = Tail(@)]
  /\ UNCHANGED <<gSharedDatabase, gSharedKeyResponse, skPc, skHandled,
                 skReturns, skOps, skCrashed>>
  /\ UNCHANGED notSk

\* part_005:964-973: the channel thread of fork f receives the response.
HandleSharedKeyResponse(f) ==
  /\ ~skCrashed
  /\ skToFork[f] # <<>>
  /\ skToFork' = [skToFork EXCEPT ![f] = Tail(@)]
  /\ IF gSharedKeyResponse[f] = <<>>
     THEN /\ gSharedKeyResponse' =
               [gSharedKeyResponse EXCEPT ![f] = <<Head(skToFork[f])>>]
          /\ UNCHANGED skCrashed
     ELSE /\ skCrashed' = TRUE
          /\ UNCHANGED gSharedKeyResponse
  /\ UNCHANGED <<gSharedDatabase, skPc, skToRoot, skHandled, skReturns,
                 skOps>>
  /\ UNCHANGED notSk

\* part_005:983-989: the wait of GetSharedKey ends and the call returns.
GetSharedKeyReturn(f) ==
  /\ ~skCrashed
  /\ skPc[f] = "waiting"
  /\ gSharedKeyResponse[f] # <<>>
  /\ skReturns' = [skReturns EXCEPT ![f] =
                     Append(@, [aKey |-> gSharedKeyResponse[f][1].aKey,
                                aValue |-> gSharedKeyResponse[f][1].data,
                                expected |->
                                  gSharedKeyResponse[f][1].expected])]
  /\ gSharedKeyResponse' = [gSharedKeyResponse EXCEPT ![f] = <<>>]
  /\ skPc' = [skPc EXCEPT ![f] = "idle"]
  /\ UNCHANGED <<gSharedDatabase, skToRoot, skToFork, skHandled, skOps,
                 skCrashed>>
  /\ UNCHANGED notSk

NextSk ==
  \/ \E f \in ForkIds, aKey \in SharedKeys, aValue \in SharedValues :
       SetSharedKey(f, aKey, aValue)
  \/ \E f \in ForkIds : HandleSharedKeySet(f)
  \/ \E f \in ForkIds, aKey \in SharedKeys : GetSharedKey(f, aKey)
  \/ \E f \in ForkIds : HandleSharedKeyRequest(f)
  \/ \E f \in ForkIds : HandleSharedKeyResponse(f)
  \/ \E f \in ForkIds : GetSharedKeyReturn(f)

(***************************************************************************)
(* SetupRecordReplayChannel (part_005:304-338) and the messages which the  *)
(* channel thread handles while the main thread waits in it (part_005:     *)
(* 154-161 for Introduction, OnNewRecordingData for RecordingData).  The   *)
(* channel is created by the call, so that no message is handled before.   *)
(***************************************************************************)
MaxSetupMsgs == 3

SetupStart ==
  /\ gIntroductionMessage = FALSE
  /\ setupKind = "none"
  /\ setupPc = "unstarted"
  /\ setupInbox = <<>>
  /\ setupSent = 0
  /\ setupContents = <<>>
  /\ setupDeferred = <<>>
  /\ setupAccepted = 0
  /\ setupCrashed = FALSE

\* part_005:304-325: the channel is created and the main thread starts to
\* wait.
SetupRecordReplayChannel(aKind) ==
  /\ setupPc = "unstarted"
  /\ setupKind' = aKind
  /\ setupPc' = "waiting"
  /\ UNCHANGED <<gIntroductionMessage, setupInbox, setupSent, setupContents,
                 setupDeferred, setupAccepted, setupCrashed>>
  /\ UNCHANGED notSetup

\* The middleman sends a message.
SetupMiddlemanSend(aMsg) ==
  /\ setupSent < MaxSetupMsgs
  /\ setupSent' = setupSent + 1
  /\ setupInbox' = Append(setupInbox, aMsg)
  /\ UNCHANGED <<gIntroductionMessage, setupKind, setupPc, setupContents,
                 setupDeferred, setupAccepted, setupCrashed>>
  /\ UNCHANGED notSetup

\* part_005:154-161: the channel thread handles an Introduction message.
SetupIntroductionHandler ==
  /\ ~setupCrashed
  /\ setupPc # "unstarted"
  /\ setupInbox # <<>>
  /\ Head(setupInbox).mType = "Introduction"
  /\ setupInbox' = Tail(setupInbox)
  /\ IF ~gIntroductionMessage
     THEN /\ gIntroductionMessage' = TRUE
          /\ setupAccepted' = setupAccepted + 1
          /\ UNCHANGED setupCrashed
     ELSE /\ setupCrashed' = TRUE
          /\ UNCHANGED <<gIntroductionMessage, setupAccepted>>
  /\ UNCHANGED <<setupKind, setupPc, setupSent, setupContents,
                 setupDeferred>>
  /\ UNCHANGED notSetup

\* The channel thread handles a RecordingData message.
SetupRecordingDataHandler ==
  /\ ~setupCrashed
  /\ setupPc # "unstarted"
  /\ setupInbox # <<>>
  /\ Head(setupInbox).mType = "RecordingData"
  /\ setupInbox' = Tail(setupInbox)
  /\ LET r == HandleRecordingData(setupContents, setupDeferred,
                                  Head(setupInbox).mMsg)
     IN /\ setupContents' = r.contents
        /\ setupDeferred' = r.deferred
  /\ UNCHANGED <<gIntroductionMessage, setupKind, setupPc, setupSent,
                 setupAccepted, setupCrashed>>
  /\ UNCHANGED notSetup

\* The wait of part_005:333-337 left out.
SetupMustWait_IntroductionOnly(aIntroduction, aReplaying, contents) ==
  ~aIntroduction

\* part_005:327-337: the two waits of SetupRecordReplayChannel.
SetupMustWait(aIntroduction, aReplaying, contents) ==
  \/ ~aIntroduction
  \/ aReplaying /\ contents = <<>>

\* part_005:327-338: the waits end and the call returns.
SetupRecordReplayChannelReturn ==
  /\ ~setupCrashed
  /\ setupPc = "waiting"
  /\ ~SetupMustWait(gIntroductionMessage, setupKind = "Replaying",
                    setupContents)
  /\ setupPc' = "returned"
  /\ UNCHANGED <<gIntroductionMessage, setupKind, setupInbox, setupSent,
                 setupContents, setupDeferred, setupAccepted, setupCrashed>>
  /\ UNCHANGED notSetup

NextSetup ==
  \/ \E aKind \in {"Recording", "Replaying"} : SetupRecordReplayChannel(aKind)
  \/ SetupMiddlemanSend([mType |-> "Introduction"])
  \/ \E m \in ValidMessages :
       SetupMiddlemanSend([mType |-> "RecordingData", mMsg |-> m])
  \/ SetupIntroductionHandler
  \/ SetupRecordingDataHandler
  \/ SetupRecordReplayChannelReturn

(***************************************************************************)
(* OnMouseEvent and OnKeyboardEvent (ProcessRecordReplay.cpp:1364-1401):   *)
(* an event is passed on to the driver when the process has a checkpoint   *)
(* and the message of the event is one of those that have a name.          *)
(***************************************************************************)
MaxWidgetEvents == 2

MouseMessages == {"eMouseDown", "eMouseMove", "eMouseUp"}

KeyboardMessages == {"eKeyPress", "eKeyDown", "eKeyUp", "eKeyOther"}

EvStart ==
  /\ evDelivered = 0
  /\ evReported = <<>>

\* ProcessRecordReplay.cpp:1369-1374: the name of a mouse event, "" for
\* the null pointer.
MouseEventKind(aMessage) ==
  IF aMessage = "eMouseDown" THEN "mousedown"
  ELSE IF aMessage = "eMouseMove" THEN "mousemove"
  ELSE ""

\* ProcessRecordReplay.cpp:1386-1393: the name of a keyboard event.
KeyboardEventKind(aMessage) ==
  IF aMessage = "eKeyPress" THEN "keypress"
  ELSE IF aMessage = "eKeyDown" THEN "keydown"
  ELSE IF aMessage = "eKeyUp" THEN "keyup"
  ELSE ""

\* ProcessRecordReplay.cpp:1364-1379
OnMouseEvent(aMessage) ==
  /\ ckptPhase = "recording"
  /\ evDelivered < MaxWidgetEvents
  /\ evDelivered' = evDelivered + 1
  /\ evReported' =
       IF gHasCheckpoint /\ MouseEventKind(aMessage) # ""
       THEN Append(evReported, MouseEventKind(aMessage))
       ELSE evReported
  /\ UNCHANGED notEv

\* ProcessRecordReplay.cpp:1381-1401
OnKeyboardEvent(aMessage) ==
  /\ ckptPhase = "recording"
  /\ evDelivered < MaxWidgetEvents
  /\ evDelivered' = evDelivered + 1
  /\ evReported' =
       IF gHasCheckpoint /\ KeyboardEventKind(aMessage) # ""
       THEN Append(evReported, KeyboardEventKind(aMessage))
       ELSE evReported
  /\ UNCHANGED notEv

NextEv ==
  \/ NextCkpt
  \/ \E aMessage \in MouseMessages : OnMouseEvent(aMessage)
  \/ \E aMessage \in KeyboardMessages : OnKeyboardEvent(aMessage)

(***************************************************************************)
(* openSigninPage (part_002:147-189).  The function opens the sign-in page *)
(* and starts two promises that race: a timer that rejects, and a loop     *)
(* that asks the server to close the auth request, sleeping after every    *)
(* answer with errors.  A step of the model is what runs between two       *)
(* awaits.  A promise that is settled stays as it is.                      *)
(***************************************************************************)
MaxAuthRetries == 40

AuthStart ==
  /\ authPc = "closed"
  /\ retries = 0
  /\ authToken = FALSE
  /\ authPromise = "pending"
  /\ authRace = "pending"
  /\ authPings = <<>>

\* resolve() or reject() on a promise in state aPromise.
Settle(aPromise, aOutcome) ==
  IF aPromise = "pending" THEN aOutcome ELSE aPromise

\* part_002:147-171: the page is opened, retries is 0 and the first query
\* is sent.
openSigninPage ==
  /\ authPc = "closed"
  /\ authPc' = "querying"
  /\ UNCHANGED <<retries, authToken, authPromise, authRace, authPings>>
  /\ UNCHANGED notAuth

\* part_002:183-186: what follows the loop.
AfterPollingLoop(aToken, aPromise, aRace) ==
  /\ authPings' = Append(authPings,
                         [mEvent |-> "auth-request-failed",
                          mToken |-> aToken])
  /\ authPromise' = Settle(aPromise, "rejected")
  /\ authRace' = Settle(aRace, Settle(aPromise, "rejected"))
  /\ authPc' = "finished"

\* part_002:173-186: the answer to the query arrives, with errors or with
\* the token.
AuthQueryResponse(aErrors) ==
  /\ authPc = "querying"
  /\ IF aErrors
     THEN /\ retries' = retries + 1
          /\ authPc' = "sleeping"
          /\ UNCHANGED <<authToken, authPromise, authRace, authPings>>
     ELSE /\ authToken' = TRUE
          /\ AfterPollingLoop(TRUE, Settle(authPromise, "resolved"),
                              Settle(authRace, "resolved"))
          /\ UNCHANGED retries
  /\ UNCHANGED notAuth

\* part_002:175 and 161-171, 183-186: the sleep ends and the loop goes
\* round, or ends.
AuthSleepDone ==
  /\ authPc = "sleeping"
  /\ IF retries < MaxAuthRetries
     THEN /\ authPc' = "querying"
          /\ UNCHANGED <<authPromise, authRace, authPings>>
     ELSE AfterPollingLoop(authToken, authPromise, authRace)
  /\ UNCHANGED <<retries, authToken>>
  /\ UNCHANGED notAuth

\* part_002:158: the timer of two minutes fires.
AuthTimeout ==
  /\ authPc # "closed"
  /\ authRace = "pending"
  /\ authRace' = "rejected"
  /\ UNCHANGED <<authPc, retries, authToken, authPromise, authPings>>
  /\ UNCHANGED notAuth

NextAuth ==
  \/ openSigninPage
  \/ \E aErrors \in BOOLEAN : AuthQueryResponse(aErrors)
  \/ AuthSleepDone
  \/ AuthTimeout

(***************************************************************************)
(* Initial state and specifications.                                       *)
(***************************************************************************)
DataStart ==
  /\ gRecordingContents = <<>>
  /\ gDeferredRecordingDataMessages = <<>>
  /\ gRecording = <<>>
  /\ delivered = <<>>
  /\ pc = [t \in Threads |-> "idle"]
  /\ need = [t \in Threads |-> 0]
  /\ notified = [t \in Threads |-> FALSE]
  /\ resumed = [t \in Threads |-> FALSE]
  /\ crashed = FALSE

NextData ==
  \/ \E m \in ValidMessages : OnNewRecordingData(m)
  \/ \E t \in Threads, n \in 0..MaxLen : EnsureRecordingLength(t, n)
  \/ \E t \in Threads : EnsureRecordingLengthWake(t)
  \/ \E t \in Threads : EnsureRecordingLengthReturn(t)
  \/ \E b \in BOOLEAN : AddPendingRecordingData(b)

Init ==
  /\ DataStart /\ StreamStart /\ LockStart /\ ForkStart /\ TimeoutStart
  /\ PingStart
  /\ CkptStart
  /\ ModeStart
  /\ BufStart
  /\ IdleStart
  /\ DivStart
  /\ AtomStart
  /\ RoleStart
  /\ SumStart
  /\ SmStart
  /\ RouteStart
  /\ ManStart
  /\ ExtStart
  /\ FlushStart
  /\ SkStart
  /\ SetupStart
  /\ EvStart
  /\ AuthStart

SpecData == Init /\ [][NextData]_vars

SpecStream == Init /\ [][NextStream]_vars

SpecLock == Init /\ [][NextLock]_vars

SpecFork == Init /\ [][NextFork]_vars

SpecTimeout == Init /\ [][NextTimeout]_vars

\* Time passes, and the fork's main thread runs.
FairSpecTimeout ==
  /\ SpecTimeout
  /\ WF_vars(Tick)
  /\ WF_vars(TimeoutPerformForkChild)
  /\ WF_vars(ExitIfNotInitializedBefore)

SpecPing == Init /\ [][NextPing]_vars

\* The middleman's timer and both channel threads run; nothing makes a
\* main thread that is stuck in PerformFork leave it.
FairSpecPing ==
  /\ SpecPing
  /\ WF_vars(MiddlemanInterval)
  /\ WF_vars(MiddlemanPingResponse)
  /\ WF_vars(PingChannelThreadReceive)
  /\ WF_vars(PingChannelMessageHandler)

SpecCkpt == Init /\ [][NextCkpt]_vars

\* The threads of the recording process run, and its main thread reaches the
\* point where it is fully initialized; when the middleman asks for a
\* checkpoint is left open.
FairSpecCkpt ==
  /\ SpecCkpt
  /\ WF_vars(CheckpointChannelMessageHandler)
  /\ WF_vars(ListenForCheckpointThreadMain)
  /\ WF_vars(CreateCheckpointRunnable)
  /\ WF_vars(CreateCheckpoint)
  /\ WF_vars(ReplayingMainThread)

SpecMode == Init /\ [][NextMode]_vars

SpecBuf == Init /\ [][NextBuf]_vars

SpecIdle == Init /\ [][NextIdle]_vars

SpecDiv == Init /\ [][NextDiv]_vars

SpecAtom == Init /\ [][NextAtom]_vars

SpecRole == Init /\ [][NextRole]_vars

SpecSum == Init /\ [][NextSum]_vars

SpecSm == Init /\ [][NextSm]_vars

SpecRoute == Init /\ [][NextRoute]_vars

SpecMan == Init /\ [][NextMan]_vars

SpecExt == Init /\ [][NextExt]_vars

SpecFlush == Init /\ [][NextFlush]_vars

SpecSk == Init /\ [][NextSk]_vars

SpecSetup == Init /\ [][NextSetup]_vars

SpecEv == Init /\ [][NextEv]_vars

SpecAuth == Init /\ [][NextAuth]_vars

\* Every thread of the root and of the forks that can take a step gets to
\* run; when the root forks and when the middleman sends data is left open.
FairSpecFork ==
  /\ SpecFork
  /\ WF_vars(PerformForkClone)
  /\ WF_vars(PerformForkWriteUnlock)
  /\ WF_vars(ForkListenerThreadRead)
  /\ WF_vars(ForkListenerThreadRegister)
  /\ WF_vars(RootChannelMessageHandler)
  /\ \A f \in ForkIds :
       /\ WF_vars(PerformForkChild(f))
       /\ WF_vars(HandleMessageFromForkedProcessLock(f))
       /\ WF_vars(HandleMessageFromForkedProcess(f))
       /\ WF_vars(ForkChannelMessageHandler(f))
       /\ WF_vars(ForkEnsureRecordingLengthReturn(f))

\* The monitor wakes every notified waiter.
FairSpecData ==
  SpecData /\ \A t \in Threads : WF_vars(EnsureRecordingLengthWake(t))

(***************************************************************************)
(* Delivery of a set of messages in increasing offset order, the reference *)
(* the merge is compared with.                                             *)
(***************************************************************************)
Range(s) == { s[i] : i \in 1..Len(s) }

\* The message of a set that comes first by (start offset, size).
FirstByOffset(S) ==
  CHOOSE m \in S : \A o \in S :
    \/ m.mTag < o.mTag
    \/ (m.mTag = o.mTag /\ Len(m.data) <= Len(o.data))

RECURSIVE DeliverInOrder(_, _)
DeliverInOrder(contents, S) ==
  IF S = {} THEN contents
  ELSE LET m == FirstByOffset(S)
       IN DeliverInOrder(IncorporateRecordingData(contents, m).contents,
                         S \ {m})

InOrderContents(msgs) == DeliverInOrder(<<>>, Range(msgs))

\* Every offset below n lies in the range of a message of msgs.
Covers(msgs, n) ==
  \A off \in 0..(n - 1) :
    \E i \in 1..Len(msgs) :
      msgs[i].mTag <= off /\ off < msgs[i].mTag + Len(msgs[i].data)

(***************************************************************************)
(* C5: whatever the order in which a set of RecordingData chunks was       *)
(* delivered (duplicates and overlaps included), the received contents     *)
(* equal the contents obtained by delivering the same chunks in            *)
(* increasing offset order.                                                *)
(***************************************************************************)
C5_MergeEqualsInOrder ==
  gRecordingContents = InOrderContents(delivered)

(***************************************************************************)
(* C6: recording contents are append-only: a step never changes a byte     *)
(* below the current size of the received contents or of the incorporated  *)
(* recording, and neither size decreases.                                  *)
(***************************************************************************)
C6_AppendOnly ==
  [][ /\ IsPrefix(gRecordingContents, gRecordingContents')
      /\ IsPrefix(gRecording, gRecording') ]_vars

\* An overlapping or duplicate message was handled after contents existed,
\* and the main thread incorporated part of the contents.
C6_Witness ==
  /\ Len(gRecording) >= 1
  /\ Len(gRecordingContents) > Len(gRecording)
  /\ \E i, j \in 1..Len(delivered) :
       i < j /\ delivered[j].mTag < delivered[i].mTag + Len(delivered[i].data)
             /\ delivered[j].mTag >= delivered[i].mTag

(***************************************************************************)
(* C7: EnsureRecordingLength(N) has returned only if at least N bytes of   *)
(* recording contents are present.                                         *)
(***************************************************************************)
C7_ReturnsOnlyWithLength ==
  \A t \in Threads : pc[t] = "done" => Len(gRecordingContents) >= need[t]

\* A thread returned from a call that had to wait for bytes.
C7_Witness ==
  \E t \in Threads : pc[t] = "done" /\ resumed[t] /\ need[t] >= 2

(***************************************************************************)
(* C8: a thread blocked in EnsureRecordingLength(N) returns once messages  *)
(* covering every offset below N have been received, in whatever order,    *)
(* with no further message (unless the process crashes meanwhile).         *)
(***************************************************************************)
C8_ResumesWhenCovered ==
  \A t \in Threads :
    [](((pc[t] = "waiting" /\ Covers(delivered, need[t]))
        => <>(pc[t] = "done" \/ crashed)))

(***************************************************************************)
(* The replaying thread makes the same call as the recording thread did:   *)
(* same function, same pass-through state, same buffer size.  The value    *)
(* or the buffer contents passed by the caller may differ.                 *)
(***************************************************************************)
SameCall(rec, rep) ==
  /\ rec.kind = rep.kind
  /\ rec.pt = rep.pt
  /\ rec.kind = "Bytes" => Len(rec.arg) = Len(rep.arg)

\* The first i replayed calls are the first i recorded calls.
SamePrefix(i) ==
  /\ i <= Len(recCalls)
  /\ i <= Len(repCalls)
  /\ \A j \in 1..i : SameCall(recCalls[j], repCalls[j])

(***************************************************************************)
(* C1: when the replaying thread repeats the recorded call sequence, every *)
(* call that was recorded returns the value or bytes recorded at that      *)
(* position, and this holds after every prefix of the sequence.            *)
(***************************************************************************)
C1_ReplayReturnsRecorded ==
  processKind = "Replaying" =>
    \A i \in 1..Len(repCalls) :
      (SamePrefix(i) /\ ~recCalls[i].pt) =>
        /\ repCalls[i].completed
        /\ repCalls[i].result = recCalls[i].result

\* Two recorded calls, a value and a buffer, replayed with other arguments.
C1_Witness ==
  /\ processKind = "Replaying"
  /\ Len(repCalls) = 2
  /\ SamePrefix(2)
  /\ \A i \in 1..2 : ~recCalls[i].pt /\ repCalls[i].arg # recCalls[i].arg
  /\ recCalls[1].kind = "Value"
  /\ recCalls[2].kind = "Bytes" /\ Len(recCalls[2].arg) = 1

(***************************************************************************)
(* C2: after recording RecordReplayValue("x", 42) and then                 *)
(* RecordReplayValue("y", 7), the two calls return 42 and then 7 on        *)
(* replay, whatever values the replaying caller passes.                    *)
(***************************************************************************)
C2_RoundTrip ==
  ( /\ processKind = "Replaying"
    /\ recCalls = << Call("Value", FALSE, 42, 42, TRUE),
                     Call("Value", FALSE, 7, 7, TRUE) >> )
  => \A i \in 1..Len(repCalls) :
       (\A j \in 1..i : repCalls[j].kind = "Value" /\ ~repCalls[j].pt)
       => repCalls[i].result = <<42, 7>>[i]

\* The replaying caller passed 7 and then 42 and got 42 and then 7.
C2_Witness ==
  /\ processKind = "Replaying"
  /\ recCalls = << Call("Value", FALSE, 42, 42, TRUE),
                   Call("Value", FALSE, 7, 7, TRUE) >>
  /\ repCalls = << Call("Value", FALSE, 7, 42, TRUE),
                   Call("Value", FALSE, 42, 7, TRUE) >>

(***************************************************************************)
(* C3: when a Value event was recorded at a stream position and the        *)
(* replaying thread calls RecordReplayBytes at that position, a kind       *)
(* mismatch is reported as a fatal error, the call does not complete, the  *)
(* buffer is not overwritten and no later call is made.                    *)
(***************************************************************************)
C3_KindMismatchReported ==
  processKind = "Replaying" =>
    \A i \in 1..Len(repCalls) :
      ( /\ SamePrefix(i - 1)
        /\ i <= Len(recCalls)
        /\ recCalls[i].kind = "Value" /\ ~recCalls[i].pt
        /\ repCalls[i].kind = "Bytes" /\ ~repCalls[i].pt )
      => /\ fatalError = "KindMismatch"
         /\ ~repCalls[i].completed
         /\ repCalls[i].result = repCalls[i].arg
         /\ Len(repCalls) = i

\* A value was recorded second, and the second replayed call was
\* RecordReplayBytes.
C3_Witness ==
  /\ processKind = "Replaying"
  /\ Len(repCalls) = 2
  /\ Len(recCalls) = 2
  /\ SamePrefix(1)
  /\ recCalls[2].kind = "Value" /\ ~recCalls[2].pt
  /\ repCalls[2].kind = "Bytes" /\ ~repCalls[2].pt
  /\ fatalError = "KindMismatch"

\* The number of entries equal to the k-th among the first k entries of a
\* log: the k-th entry is that thread's n-th acquire of that lock.
Occurrence(log, k) == Cardinality({ m \in 1..k : log[m] = log[k] })

\* Where the n-th acquire e stands in a log, 0 when it is not there.
PositionOf(log, e, n) ==
  IF \E k \in 1..Len(log) : log[k] = e /\ Occurrence(log, k) = n
  THEN CHOOSE k \in 1..Len(log) : log[k] = e /\ Occurrence(log, k) = n
  ELSE 0

\* Where the i-th recorded acquire was observed while replaying.
ReplayPosition(i) ==
  PositionOf(replayAcquires, lockStream[i], Occurrence(lockStream, i))

(***************************************************************************)
(* C4: for two acquires of the same ordered lock, when the first came      *)
(* before the second while recording, the second is observed on replay     *)
(* only after the first has been observed.                                 *)
(***************************************************************************)
C4_LockOrderPreserved ==
  lockKind = "Replaying" =>
    \A i, j \in 1..Len(lockStream) :
      ( /\ i < j
        /\ lockStream[i].lock = lockStream[j].lock
        /\ ReplayPosition(j) # 0 )
      => /\ ReplayPosition(i) # 0
         /\ ReplayPosition(i) < ReplayPosition(j)

\* Two threads acquired the same lock while recording and both acquires
\* have been replayed.
C4_Witness ==
  /\ lockKind = "Replaying"
  /\ \E i, j \in 1..Len(lockStream) :
       /\ i < j
       /\ lockStream[i].lock = lockStream[j].lock
       /\ lockStream[i].thread # lockStream[j].thread
       /\ ReplayPosition(i) # 0
       /\ ReplayPosition(j) # 0

\* A fork whose EnsureRecordingLength call has returned holds the length it
\* asked for.
ForkNeverProceedsEarly ==
  \A f \in ForkIds :
    forkPc[f] = "done" => Len(forkContents[f]) >= forkNeed[f]

(***************************************************************************)
(* C9: a fork that needs recording blocks beyond its own contents never    *)
(* goes on before it holds them, and once it waits and the root holds the  *)
(* required length, the root's reply arrives and the fork goes on.         *)
(***************************************************************************)
C9_ForkBlocksThenProceeds ==
  /\ []ForkNeverProceedsEarly
  /\ \A f \in ForkIds :
       (forkPc[f] = "waiting" /\ Len(rootContents) >= forkNeed[f])
         ~> (forkPc[f] = "done" \/ rootCrashed)

\* The step of PerformFork that makes the clone.
IsClone == \E f \in ForkIds : forkState[f] = "none" /\ forkState'[f] = "child"

(***************************************************************************)
(* C10: the clone of PerformFork is made only while the fork lock is held  *)
(* for writing and no root thread is inside a section that holds the fork  *)
(* lock for reading (channel message handling, fork listener registration, *)
(* handling of a message from a fork).                                     *)
(***************************************************************************)
C10_CloneOnlyWhileWriteLocked ==
  [][IsClone => (gForkLock = WriteLocked /\ ReadersInSection = {})]_vars

\* A second fork has just been cloned while the listener has a record to
\* read and the first fork has a request waiting to be handled.
C10_Witness ==
  /\ mainPc = "cloned"
  /\ gForkLock = WriteLocked
  /\ forkPipe # <<>>
  /\ \E f \in gForkedProcesses : toRoot[f] # <<>>

(***************************************************************************)
(* C11: a forked process whose channel is never initialized exits, and it  *)
(* exits only when its channel is not initialized and no earlier than      *)
(* ForkTimeoutSeconds (10 seconds) after the fork.                         *)
(***************************************************************************)
C11_ForkTimesOut ==
  /\ [](childPc = "exited" =>
          /\ ~mInitialized
          /\ exitedAt >= forkedAt + ForkTimeoutSeconds)
  /\ (childPc = "waiting") ~> (childPc = "exited" \/ mInitialized)

\* The fork was never connected and exited when its deadline passed.
C11_Witness ==
  /\ childPc = "exited"
  /\ ~mInitialized
  /\ exitedAt >= deadline
  /\ forkedAt > 0

(***************************************************************************)
(* C12: a process that left MissedIntervals intervals without an answer to *)
(* its Ping is classified as hung, the Crash message is sent to it, and    *)
(* the process then reaches its crash path (part_005:142-147).             *)
(***************************************************************************)
C12_HungProcessIsCrashed ==
  /\ [](missedIntervals >= MissedIntervals => classifiedHung /\ crashSent)
  /\ classifiedHung ~> childCrashed

StrictlyIncreasing(aLog) ==
  \A i \in 1..Len(aLog) : \A j \in 1..Len(aLog) :
    i < j => aLog[i][1] < aLog[j][1]

C14_RequestEventuallyCreatesCheckpoint ==
  \A r \in 1..MaxRequests :
    (r \in ckptReceived) ~> (r \in ckptCreatedFor)

OpenScopes(t, aMode) ==
  Cardinality({i \in 1..Len(modeScopes[t]) : modeScopes[t][i] = aMode})

\* C15: the pass-through and the disallow counter of a thread count the
\* scopes of that mode the thread has open: a mode is active exactly while
\* one of its scopes is open, whatever other scopes were opened and closed
\* inside it, and with every scope closed the thread is back in the mode it
\* had before the outermost begin.
C15_NestingCounters ==
  \A t \in Threads :
    /\ mPassThroughEvents[t] = OpenScopes(t, "passThrough")
    /\ mDisallowEvents[t] = OpenScopes(t, "disallow")
    /\ AreThreadEventsPassedThrough(t) <=> OpenScopes(t, "passThrough") > 0
    /\ AreThreadEventsDisallowed(t) <=> OpenScopes(t, "disallow") > 0

C15_Witness ==
  /\ modeScopes[1] = <<"passThrough">>
  /\ modeScopes[2] = <<"disallow", "disallow">>
  /\ AreThreadEventsPassedThrough(1) /\ ~AreThreadEventsPassedThrough(2)
  /\ modeCalls > 0

\* C16: an event or an ordered lock attempted by a thread whose events are
\* disallowed crashes the process, also when the thread's events are passed
\* through at the same time.
C16_DisallowedEventIsFatal ==
  (modeLast.op # "none" /\ modeLast.dis) =>
    (modeLast.outcome = "fatal" /\ modeExit = "crash")

C18_BytesCopiedExactly ==
  (bufLast.made /\ ~bufLast.pt) =>
    /\ bufLast.kind = "Recording" =>
         /\ bufLast.result = bufLast.arg
         /\ bufEvents = bufLast.eventsBefore
                          \o <<ThreadEventBytes, bufLast.size>>
                          \o SubSeq(bufLast.arg, 1, bufLast.size)
    /\ (bufLast.kind = "Replaying" /\ bufLast.completed) =>
         /\ Len(bufLast.result) = Len(bufLast.arg)
         /\ SubSeq(bufLast.result, 1, bufLast.size) =
              SubSeq(bufEvents, bufLast.posBefore + 3,
                     bufLast.posBefore + 2 + bufLast.size)
         /\ SubSeq(bufLast.result, bufLast.size + 1, Len(bufLast.result)) =
              SubSeq(bufLast.arg, bufLast.size + 1, Len(bufLast.arg))
         /\ bufPos = bufLast.posBefore + 2 + bufLast.size
         /\ bufEvents = bufLast.eventsBefore

\* A replayed call of size 1 on a buffer of 2 bytes: the first byte was
\* replaced by the recorded one, the second byte was kept.
C18_Witness ==
  /\ bufLast.made /\ ~bufLast.pt
  /\ bufLast.kind = "Replaying" /\ bufLast.completed
  /\ bufLast.size = 1 /\ Len(bufLast.arg) = 2
  /\ bufLast.result[1] # bufLast.arg[1]
  /\ bufLast.result[2] = bufLast.arg[2]

\* C20: from the moment AddPendingRecordingData is past WaitForIdleThreads
\* until it has resumed the threads, no recorded thread is running or inside
\* a read of its stream, so the recording is extended only while every
\* recorded thread is idle (or not yet spawned); and when the call returns
\* no recorded thread is left idle.
C20_NewContentsWhileQuiescent ==
  /\ idlePc \in {"NewContents", "ResumeIdleThreads"} =>
       \A t \in IdleThreadIds : idleThreads[t] \in {"idle", "unspawned"}
  /\ (idlePc = "idle" /\ ~idleCrashed) =>
       \A t \in IdleThreadIds : idleThreads[t] # "idle"

\* The recording was extended by a call that waited for two spawned
\* threads, and the call has returned.
C20_Witness ==
  /\ idlePc = "idle"
  /\ ~gNeedRespawnThreads
  /\ idleRecording = MaxIdleLen
  /\ ~gThreadsShouldIdle
  /\ \A t \in IdleThreadIds : idleThreads[t] = "reading"

\* C21: when unhandled divergences are not allowed, or the divergence is
\* off the main thread, no UnhandledDivergence message is sent to the
\* middleman: every message sent comes from a call whose test of
\* part_005:706 was false.
C21_NoMessageWhenNotAllowed ==
  \A i \in 1..Len(divSent) : ~divSent[i].mNotAllowed

\* C22: every read, write and exchange of an OrderedAtomic is performed
\* while the accessing thread holds the atomic's ordered lock, and the
\* accesses made while replaying are, in order, the accesses made while
\* recording (same thread, same operation, same value returned).
C22_OrderedAtomicSameOrder ==
  /\ \A i \in 1..Len(atomRecAccesses) : atomRecAccesses[i].held
  /\ \A i \in 1..Len(atomRepAccesses) : atomRepAccesses[i].held
  /\ IsPrefix(atomRepAccesses, atomRecAccesses)

\* Both threads have accessed the atomic while replaying, one of them with
\* a read or an exchange that returned another thread's value.
C22_Witness ==
  /\ atomKind = "Replaying"
  /\ Len(atomRepAccesses) = MaxAtomicOps
  /\ \E i, j \in 1..Len(atomRepAccesses) :
       /\ i < j
       /\ atomRepAccesses[i].thread # atomRepAccesses[j].thread
       /\ atomRepAccesses[j].kind \in {"read", "exchange"}
       /\ atomRepAccesses[j].rv # AtomInit

\* C23: once the first Initialize has returned, IsRecording and IsReplaying
\* are never both true, IsRecordingOrReplaying is true exactly when one of
\* them is, and the role flags stay what the first call left, whatever
\* later calls of Initialize ask for.
C23_RoleSetOnce ==
  (roleLog # <<>> /\ (Len(roleLog) > 1 \/ rolePc = "idle")) =>
    /\ ~(gIsRecording /\ gIsReplaying)
    /\ gIsRecordingOrReplaying <=> (gIsRecording \/ gIsReplaying)
    /\ RoleFlags = roleFirst
    /\ rolePc = "idle"

\* A recording process on which Initialize was called again for a
\* replaying process.
C23_Witness ==
  /\ Len(roleLog) >= 2
  /\ rolePc = "idle"
  /\ roleLog[1].hasSymbol /\ roleLog[1].kind = "Recording"
  /\ roleLog[2].hasSymbol /\ roleLog[2].kind = "Replaying"
  /\ gIsRecording

\* C24: the summary stream holds three scalars per checkpoint summary;
\* the three vectors always have equal length, and once the replaying
\* process has read the stream they hold exactly the progress counters,
\* elapsed values and times handed to AddCheckpointSummary, in order.
C24_SummaryRoundTrip ==
  /\ Len(sumStream.events) = 3 * Len(sumWritten)
  /\ Len(sumProgressCounters) = Len(sumElapsed)
  /\ Len(sumElapsed) = Len(sumTimes)
  /\ sumReads >= 1 =>
       /\ sumStream.fatal = "none"
       /\ sumProgressCounters =
            [i \in 1..Len(sumWritten) |-> sumWritten[i].progress]
       /\ sumElapsed = [i \in 1..Len(sumWritten) |-> sumWritten[i].elapsed]
       /\ sumTimes = [i \in 1..Len(sumWritten) |-> sumWritten[i].time]

\* Two different summaries, each with a progress counter that differs from
\* its elapsed value, have been read back.
C24_Witness ==
  /\ sumReads >= 1
  /\ Len(sumWritten) = MaxSummaries
  /\ sumWritten[1] # sumWritten[2]
  /\ \A i \in 1..Len(sumWritten) :
       sumWritten[i].progress # sumWritten[i].elapsed
  /\ Len(sumTimes) = MaxSummaries

\* C25: when the replaying main thread runs off the end of the recording
\* (HitEndOfRecording calls AddPendingRecordingData with aRequireMore), the
\* step under gMonitor either hands the received and not yet incorporated
\* data to the recording, after which the call goes on, or, when there is
\* no such data, crashes the process: it never goes on with nothing new.
C25_EndOfRecordingIncorporatesOrCrashes ==
  [][(idlePc = "NewContents" /\ idleRequireMore /\ idlePc' # idlePc) =>
       IF idleContents > idleRecording
       THEN idleRecording' = idleContents /\ ~idleCrashed'
       ELSE idleCrashed']_vars

\* Received data was incorporated, and a later run off the end of the
\* recording found no new data and crashed the process.
C25_Witness ==
  /\ idleCrashed
  /\ idleRequireMore
  /\ idleRecording > 0
  /\ idleRecording = idleContents

\* C26: every Mutex() call returns the one mutex published in mMutex, so
\* all threads lock the same mutex and at most one of them holds it; of the
\* mutexes allocated, the published one is kept, and every other one is
\* deleted by the thread that allocated it (or is about to be) and has
\* never been locked.
C26_OneMutexKept ==
  /\ \A t \in Threads :
       smPc[t] \in {"lock", "held"} =>
         smReturned[t] # NoMutex /\ smReturned[t] = mMutex
  /\ Cardinality({t \in Threads : smPc[t] = "held"}) <= 1
  /\ mMutex # NoMutex => mMutex \in smNew \ smDeleted
  /\ smDeleted \cap smLocked = {}
  /\ \A m \in smNew \ smDeleted :
       \/ m = mMutex
       \/ \E t \in Threads : smPc[t] = "compareExchange" /\ smLocal[t] = m

\* Two threads raced through Mutex(): both allocated, one mutex was
\* deleted, and the thread whose mutex was deleted holds the kept one.
C26_Witness ==
  /\ Cardinality(smNew) = 2
  /\ Cardinality(smDeleted) = 1
  /\ \E t \in Threads :
       /\ smPc[t] = "held"
       /\ smLocal[t] \in smDeleted
       /\ smReturned[t] = mMutex

\* C27: whenever the RecordingData handler has returned, no deferred
\* message remains whose start offset is less than or equal to the length
\* of the received contents.
C27_NoContiguousMessageDeferred ==
  \A i \in 1..Len(gDeferredRecordingDataMessages) :
    gDeferredRecordingDataMessages[i].mTag > Len(gRecordingContents)

\* C28: a Crash message sent to the process while its main thread holds
\* the fork lock for writing takes effect: the process reaches its crash
\* path (part_005:142-147), whether or not the main thread ever releases
\* the lock.
C28_CrashTakesEffectUnderForkLock ==
  (/\ pingForkLock = WriteLocked
   /\ \E i \in 1..Len(pingInbox) : pingInbox[i].mType = "Crash")
    ~> childCrashed

\* The messages of a sequence, as a set.
RouteRange(s) == { s[i] : i \in 1..Len(s) }

\* C29: a message the root receives for a fork that is not registered is
\* queued; the messages the root has passed on for a fork id are, in the
\* order received, those sent to that fork followed by those still queued
\* for it, so that the queued ones go out in order and before any later
\* one; nothing is queued for a registered fork, and nothing is sent to a
\* fork with another id.
C29_PendingSentInOrder ==
  \A f \in ForkIds :
    /\ routeForwarded[f] =
         routeSentTo[f] \o SelectSeq(routePending, LAMBDA m : m.mForkId = f)
    /\ \A i \in 1..Len(routeSentTo[f]) : routeSentTo[f][i].mForkId = f
    /\ f \in routeForked =>
         SelectSeq(routePending, LAMBDA m : m.mForkId = f) = <<>>

\* Two messages for one fork were queued, with a message for the other
\* fork queued between them; the fork connected and was sent its two
\* messages, the other one staying queued.
C29_Witness ==
  \E f \in ForkIds :
    /\ routeFlushed[f] = 2
    /\ Len(routeSentTo[f]) = 2
    /\ f \in routeForked
    /\ Len(routePending) = 1
    /\ routePending[1].mForkId # f

\* C30: a process handles a message only if the message's fork id is its
\* own: what a fork received with another id it dropped, and what the root
\* received with another id it passed on to that id without handling it.
C30_HandledOnlyByAddressee ==
  /\ \A p \in RouteProcesses :
       \A i \in 1..Len(routeHandled[p]) : routeHandled[p][i].mForkId = p
  /\ \A f \in ForkIds :
       \A i \in 1..Len(routeDropped[f]) : routeDropped[f][i].mForkId # f
  /\ \A i \in 1..Len(routeReceived) :
       LET m == routeReceived[i]
       IN IF m.mForkId = RootForkId
          THEN m \in RouteRange(routeHandled[RootForkId])
          ELSE /\ m \in RouteRange(routeForwarded[m.mForkId])
               /\ m \notin RouteRange(routeHandled[RootForkId])

\* The root handled a message of its own and passed one on to a fork, which
\* handled it and dropped a message for another id.
C30_Witness ==
  /\ Len(routeHandled[RootForkId]) >= 1
  /\ \E f \in ForkIds :
       /\ Len(routeHandled[f]) >= 1
       /\ Len(routeDropped[f]) >= 1
       /\ Len(routeForwarded[f]) >= 1

\* The manifests that have been started and whose ManifestFinished message
\* has not been sent; the start-up of the process is one of them.
ManifestsInProgress ==
  ({StartupManifest} \cup {manStarted[i] : i \in 1..Len(manStarted)})
    \ {manFinishedSent[i].mManifest : i \in 1..Len(manFinishedSent)}

\* C31: at most one manifest is in progress at any time; the manifests are
\* started in the order in which their ManifestStart messages were received;
\* and a manifest is started only after the ManifestFinished message of the
\* one before it (the start-up for the first) has been sent.
C31_OneManifestAtATime ==
  /\ Cardinality(ManifestsInProgress) <= 1
  /\ \A i \in 1..Len(manStarted) :
       /\ manStarted[i] = i
       /\ \E j \in 1..Len(manFinishedSent) :
            manFinishedSent[j].mManifest = i - 1

\* Two manifests have been started one after the other while a third one
\* waited in the queue.
C31_Witness ==
  /\ Len(manStarted) = 2
  /\ gPendingManifests = <<3>>
  /\ gProcessingManifest

\* C32: at most one thread has a request outstanding; the assertions of the
\* channel thread hold, that is, every response arrives while a request is
\* waiting and the slot is empty; and every thread returns the response to
\* its own request.
C32_OneExternalCallOutstanding ==
  /\ Cardinality({t \in Threads : extPc[t] = "sent"}) <= 1
  /\ ~extCrashed
  /\ \A t \in Threads : \A i \in 1..Len(extOutput[t]) :
       extOutput[t][i].mResponse = extOutput[t][i].mRequest

\* One thread has a request outstanding while the other has already
\* returned from a call of its own and is free to call again.
C32_Witness ==
  /\ extPc[1] = "sent"
  /\ gCallResponseMessage # NoResponse
  /\ extPc[2] = "idle"
  /\ Len(extOutput[2]) = 1
  /\ Len(extOutput[1]) = 1

\* The step of HandleMessageFromForkedProcess in which the root sends its
\* reply to the request of fork f.
IsRootReply(f) ==
  /\ handlerPc[f] = "locked"
  /\ handlerPc'[f] = "idle"
  /\ ~rootCrashed'

\* The message which that step has sent, to the fork itself or to the list
\* of messages kept for forks that have not connected yet.
RootReply(f) ==
  IF toFork'[f] # toFork[f]
  THEN toFork'[f][Len(toFork'[f])]
  ELSE gPendingForkMessages'[Len(gPendingForkMessages')]

(***************************************************************************)
(* C33: when the root replies to an UpdateRecordingFromRoot request it     *)
(* holds at least the required length of the request, and the reply is a   *)
(* RecordingData message for the same fork which starts at the offset of   *)
(* the request and carries the root's contents from that offset up to the  *)
(* required length, no more and no less.                                   *)
(***************************************************************************)
C33_RootRepliesWithRequestedRange ==
  [][\A f \in ForkIds :
       IsRootReply(f) =>
         LET nmsg == handlerMsg[f]
         IN /\ toFork'[f] # toFork[f]
               \/ gPendingForkMessages' # gPendingForkMessages
            /\ Len(rootContents) >= nmsg.mRequiredLength
            /\ RootReply(f).mForkId = f
            /\ RootReply(f).mTag = nmsg.mStart
            /\ Len(RootReply(f).data) = nmsg.mRequiredLength - nmsg.mStart
            /\ \A i \in 1..Len(RootReply(f).data) :
                 RootReply(f).data[i] = rootContents[nmsg.mStart + i]]_vars

\* The root has replied to a fork that already held a part of the recording
\* with the blocks that follow that part.
C33_Witness ==
  \E f \in ForkIds :
    /\ handlerPc[f] = "idle"
    /\ toFork[f] # <<>>
    /\ toFork[f][1].mTag > 0
    /\ Len(toFork[f][1].data) > 1

(***************************************************************************)
(* C34: the required length carried by an UpdateRecordingFromRoot message  *)
(* is the length which the fork passed to EnsureRecordingLength, whatever  *)
(* that length is, and it is not below the start offset of the message.    *)
(***************************************************************************)
C34_RequiredLengthCarriedUnchanged ==
  \A f \in ForkIds : \A i \in 1..Len(toRoot[f]) :
    /\ toRoot[f][i].mRequiredLength = forkNeed[f]
    /\ toRoot[f][i].mRequiredLength >= toRoot[f][i].mStart

(***************************************************************************)
(* C36: the fork lock of a forked process that has passed the reset of     *)
(* PerformFork has no writer and no reader, whatever the lock held when    *)
(* the clone was made, so that the channel thread of the fork can handle   *)
(* every message it is sent; in the root the lock is held for writing only *)
(* by a main thread inside PerformFork whose next step is not blocked, and *)
(* once PerformFork has returned the channel thread can take the lock for  *)
(* reading.                                                                *)
(***************************************************************************)
C36_ForkLockFreeAfterFork ==
  /\ \A f \in ForkIds :
       forkState[f] = "running" =>
         /\ forkLock[f] = 0
         /\ toFork[f] # <<>> => ENABLED ForkChannelMessageHandler(f)
  /\ (gForkLock = WriteLocked /\ ~rootCrashed) =>
       ENABLED (PerformForkClone \/ PerformForkWriteUnlock)
  /\ mainPc = "idle" => ReadLockReady(gForkLock)

\* After a fork the root's channel thread holds the fork lock for reading
\* while the fork, whose lock was held for writing when it was cloned, has
\* received recording data through its own channel thread.
C36_Witness ==
  \E f \in ForkIds :
    /\ forkState[f] = "running"
    /\ forkLock[f] = 0
    /\ forkPc[f] = "done"
    /\ forkNeed[f] > 0
    /\ mainPc = "idle"
    /\ chanPc = "handling"
    /\ gForkLock > 0

\* The offset just past the last byte of the i-th message sent.
FlushEnd(i) ==
  IF i = 0 THEN 0 ELSE flushSent[i].mTag + Len(flushSent[i].data)

(***************************************************************************)
(* C35: the RecordingData messages sent by FlushRecording carry adjoining, *)
(* non-empty ranges of the recording that start at offset 0, each with the *)
(* bytes the recording holds in its range; the number of bytes sent is the *)
(* end of the last range.  A call sends the bytes from that number up to   *)
(* the size of the flushed recording, or nothing when there is none, and   *)
(* the number never goes down.                                             *)
(***************************************************************************)
C35_FlushSendsAdjoiningRanges ==
  /\ [](/\ \A i \in 1..Len(flushSent) :
             /\ flushSent[i].mTag = FlushEnd(i - 1)
             /\ Len(flushSent[i].data) > 0
             /\ FlushEnd(i) <= Len(flushRecording)
             /\ \A k \in 1..Len(flushSent[i].data) :
                  flushSent[i].data[k] =
                    flushRecording[flushSent[i].mTag + k]
        /\ gRecordingDataSentToMiddleman = FlushEnd(Len(flushSent)))
  /\ [][/\ gRecordingDataSentToMiddleman' >= gRecordingDataSentToMiddleman
        /\ flushCalls' # flushCalls =>
             /\ gRecordingDataSentToMiddleman' = Len(flushRecording')
             /\ Len(flushSent') = Len(flushSent) +
                  (IF Len(flushRecording') > gRecordingDataSentToMiddleman
                   THEN 1 ELSE 0)]_vars

\* Three calls have been made: two of them sent a range each, the second
\* starting where the first ended, and one had nothing new to send.
C35_Witness ==
  /\ flushCalls = 3
  /\ Len(flushSent) = 2
  /\ flushSent[2].mTag = 2
  /\ Len(flushSent[2].data) = 2

(***************************************************************************)
(* C37: GetSharedKey returns the value of the last SetSharedKey of the     *)
(* same key which the root had handled when it handled the request, or the *)
(* empty string when there was none; and a fork never has more than one    *)
(* response pending: the assertion of HandleSharedKeyResponse holds.       *)
(***************************************************************************)
C37_GetSharedKeyReturnsLastSet ==
  /\ ~skCrashed
  /\ \A f \in ForkIds :
       /\ Len(skToFork[f]) + Len(gSharedKeyResponse[f]) <= 1
       /\ \A i \in 1..Len(skReturns[f]) :
            skReturns[f][i].aValue = skReturns[f][i].expected

\* A fork has read a key that was set twice, the second time by the other
\* fork, and got the second value.
C37_Witness ==
  /\ Len(skHandled) = 2
  /\ skHandled[1].aKey = skHandled[2].aKey
  /\ skHandled[1].aValue # skHandled[2].aValue
  /\ skHandled[2].aValue # <<>>
  /\ \E f \in ForkIds :
       /\ Len(skReturns[f]) = 1
       /\ skReturns[f][1].aKey = skHandled[1].aKey
       /\ skReturns[f][1].aValue = skHandled[2].aValue

(***************************************************************************)
(* C38: SetupRecordReplayChannel has returned only if the Introduction     *)
(* message has been received and, in a replaying process, some recording   *)
(* data has been received as well; and no more than one Introduction       *)
(* message is ever stored.                                                 *)
(***************************************************************************)
C38_SetupWaitsForIntroductionAndData ==
  /\ setupPc = "returned" =>
       /\ gIntroductionMessage
       /\ setupKind = "Replaying" => setupContents # <<>>
  /\ setupAccepted <= 1

\* A replaying process has returned from the call after the Introduction
\* message and two messages of recording data.
C38_Witness ==
  /\ setupPc = "returned"
  /\ setupKind = "Replaying"
  /\ setupAccepted = 1
  /\ Len(setupContents) = 3
  /\ setupSent = 3

(***************************************************************************)
(* C39: the recording process has no checkpoint unless CreateCheckpoint    *)
(* has run, which is what gHasCheckpoint records: MaybeCreateCheckpoint    *)
(* creates none before; and a mouse or keyboard event is passed on to the  *)
(* driver only when gHasCheckpoint is set.                                 *)
(***************************************************************************)
C39_NothingBeforeFirstCheckpoint ==
  /\ []((ckptPhase = "recording" /\ ckptLog # <<>>) => gHasCheckpoint)
  /\ [][evReported' # evReported => gHasCheckpoint]_vars

\* An event delivered before the first checkpoint was dropped and one
\* delivered after it was reported; MaybeCreateCheckpoint has created a
\* checkpoint in between.
C39_Witness ==
  /\ ckptPhase = "recording"
  /\ evDelivered = 2
  /\ Len(evReported) = 1
  /\ evReported[1] = "mousedown"
  /\ Len(ckptLog) = 2
  /\ ckptLog[1][2] = 0
  /\ ckptCreatedFor = {}

\* No more than 40 queries are answered with errors.
AuthAtMostMaxRetriesFailures == retries <= MaxAuthRetries

(***************************************************************************)
(* C40: the loop of openSigninPage has no more than 40 queries answered    *)
(* with errors, and the "auth-request-failed" ping is sent only when no    *)
(* token has been obtained and stored.                                     *)
(***************************************************************************)
C40_FailurePingOnlyWithoutToken ==
  /\ AuthAtMostMaxRetriesFailures
  /\ \A i \in 1..Len(authPings) :
       authPings[i].mEvent = "auth-request-failed" => ~authPings[i].mToken

====
